---- MODULE Spec2Model ----
(***************************************************************************)
(* A model of the ATLAS orchestration loop (atlas/agents/orchestrator.py,  *)
(* planner.py, executor.py), of the critic's response parser               *)
(* (atlas/agents/critic.py) and of the memory tiers (atlas/memory/         *)
(* short_term.py, long_term.py, semantic.py, episodic.py, vector_store.py, *)
(* manager.py), of AtlasSystem.cancel_task (atlas/system.py), of           *)
(* BaseTool.execute (atlas/core/base_tool.py) and of                       *)
(* ExecutorAgent.execute_with_retry, and of the LangGraph workflow         *)
(* (atlas/orchestration/__init__.py).  The planner's reading of a response *)
(* is modelled on the characters of the response.                          *)
(*                                                                         *)
(* One run of OrchestratorAgent.execute is a coroutine; the actions below  *)
(* are the pieces of it between two awaits of a language-model call.       *)
(* Every assignment to task.status made inside one action is recorded, in  *)
(* order, in trans[t].  A call of a memory tier that awaits the vector     *)
(* index is two actions, one up to the await and one from it on; a call    *)
(* whose awaits never suspend is one action.                               *)
(***************************************************************************)
EXTENDS Integers, Sequences, FiniteSets, TLC

\* ------------------------------------------------------------------ bounds
NumTasks == 2
MaxRetriesBound == 2
MaxSteps == 2
MaxStores == 2
\* the clock stops at MaxClock
MaxClock == 2
\* the lines of a critic's response
MaxLines == 3
\* the characters of a planner's response
MaxText == 4
\* the calls made of one tool
MaxCalls == 2
\* the coroutines that call the short-term tier
NumCallers == 2

\* ------------------------------------------------------- program constants
\* MemoryEntry.importance is a float in [0.0, 1.0]; the model counts tenths.
ImportanceScale == 10
\* LongTermMemory(min_importance=0.3), in tenths.
DefaultMinImportance == 3
\* store(content, metadata, importance=0.5)
DefaultImportance == 5

\* ShortTermMemory(max_entries = 100, ttl_seconds = 3600)
DefaultMaxEntries == 100

DefaultTtlSeconds == 3600

\* scores are counted in tenths: 10.0 is ScoreScale * 10
ScoreScale == 10

\* ShortTermMemory.consolidate: importance > 0.7 or access_count > 5
PromotionImportance == 7

PromotionAccessCount == 5

\* LongTermMemory.consolidate keeps an entry accessed this many times
ConsolidateAccessCount == 2

\* SemanticMemory.consolidate removes a fact whose confidence is below 0.3
ConsolidateConfidence == 3

\* EpisodicMemory.consolidate keeps the last 1000 episodes
KeepEpisodes == 1000

\* the score of a response that names none, 5.0, and the top of the scale
DefaultScore == 50

MaxScore == 100

\* CriticAgent(quality_threshold = 7.0)
DefaultThreshold == 70

Tasks == 1..NumTasks

\* TaskStatus values
PENDING == "pending"
PLANNING == "planning"
EXECUTING == "executing"
CRITIQUING == "critiquing"
RETRYING == "retrying"
COMPLETED == "completed"
FAILED == "failed"
CANCELLED == "cancelled"

TaskStatus ==
  {PENDING, PLANNING, EXECUTING, CRITIQUING, RETRYING, COMPLETED, FAILED, CANCELLED}

\* Priority values
Priority == {"low", "medium", "high", "critical"}

\* ------------------------------------------------------------- small helpers
Repeat(x, k) == [i \in 1..k |-> x]

Last(s) == s[Len(s)]

SetMax(S) == CHOOSE x \in S : \A y \in S : y <= x

SetMin(S) == CHOOSE x \in S : \A y \in S : x <= y

\* ------------------------------------------------------------------ planner
\* The text the language model returns for a plan.  hasObject: the regular
\* expression \{.*\} finds a match; parses: json.loads accepts the match;
\* hasSteps: the object has a "steps" key; steps: its step objects; graph:
\* the "dependency_graph" of the object, step index -> indices it depends on.
\* What a JSON step object can hold: description present or not, a priority
\* string ("" when the key is absent) and dependency identifiers, each either
\* the text of a UUID ("uuid") or another label such as "step_1" ("label").
GoodStep == [hasDescription |-> TRUE, priority |-> "", dependencies |-> <<>>]

StepObjects ==
  {GoodStep,
   [GoodStep EXCEPT !.priority = "high", !.dependencies = <<"uuid">>],
   [GoodStep EXCEPT !.hasDescription = FALSE],
   [GoodStep EXCEPT !.priority = "urgent"],
   [GoodStep EXCEPT !.dependencies = <<"label">>]}

StepLists == UNION {[1..k -> StepObjects] : k \in 0..MaxSteps}

NoGraph == [i \in 1..MaxSteps |-> {}]

\* step 1 is declared to depend on the last step of the list
BackGraph == [i \in 1..MaxSteps |-> IF i = 1 THEN {MaxSteps} ELSE {}]

DepGraphs == {NoGraph, BackGraph}

\* A text without a JSON object, or with one json.loads rejects, carries no
\* step objects.
PlanTexts ==
  {tx \in [hasObject : BOOLEAN, parses : BOOLEAN, hasSteps : BOOLEAN,
           steps : StepLists, graph : DepGraphs] :
     /\ tx.parses => tx.hasObject
     /\ tx.hasSteps => tx.parses
     /\ ~tx.hasSteps => tx.steps = <<>>
     /\ ~tx.parses => tx.graph = NoGraph}

\* PlannerAgent._create_fallback_plan: one step wrapping the text
FallbackPlanData ==
  [hasSteps |-> TRUE,
   steps |-> <<[hasDescription |-> TRUE, priority |-> "medium",
               dependencies |-> <<>>]>>,
   graph |-> NoGraph]

\* PlannerAgent._parse_plan_response
ParsePlanResponse(text) ==
  IF text.hasObject /\ text.parses
    THEN [hasSteps |-> text.hasSteps, steps |-> text.steps, graph |-> text.graph]
    ELSE FallbackPlanData

\* An exception: its class and what str(e) gives.
Exc(ty, msg) == [type |-> ty, message |-> msg]

NoExc == Exc("", "")

\* Task(...) for one step object: the exception it raises, NoExc when none.
\* step_data["description"], Priority(...), UUID(dep) in this order.
StepError(sd) ==
  IF ~sd.hasDescription THEN Exc("KeyError", "'description'")
  ELSE IF sd.priority # "" /\ sd.priority \notin Priority
    THEN Exc("ValueError", "'urgent' is not a valid Priority")
  ELSE IF \E i \in 1..Len(sd.dependencies) : sd.dependencies[i] # "uuid"
    THEN Exc("ValueError", "badly formed hexadecimal UUID string")
  ELSE NoExc

\* PlannerAgent._create_plan_from_data: the Plan, or the first exception of
\* the loop over plan_data.get("steps", []).
CreatePlanFromData(data) ==
  LET steps == IF data.hasSteps THEN data.steps ELSE <<>>
      bad == {i \in 1..Len(steps) : StepError(steps[i]) # NoExc}
  IN IF bad = {}
       THEN [ok |-> TRUE, error |-> NoExc, nsteps |-> Len(steps), graph |-> data.graph]
       ELSE [ok |-> FALSE, error |-> StepError(steps[SetMin(bad)]),
             nsteps |-> 0, graph |-> NoGraph]

\* PlannerAgent.execute on the returned text
PlannerExecute(text) == CreatePlanFromData(ParsePlanResponse(text))

NoPlan == [nsteps |-> 0, graph |-> NoGraph]

\* ------------------------------------------------- planner, on the characters
\* The same two functions on the characters of the response.  A character is
\* a brace, a comma, "s" for the member "steps": [] or "x" for any other word.
PlanChars == {"{", "}", ",", "s", "x"}

ResponseTexts == UNION {[1..k -> PlanChars] : k \in 0..MaxText}

\* re.search(r'\{.*\}', response, re.DOTALL): from the first "{" to the last
\* "}" after it; <<>> when there is no match
SearchObject(response) ==
  LET opens == {i \in 1..Len(response) : response[i] = "{"}
      closes == {j \in 1..Len(response) :
                   response[j] = "}" /\ \E i \in opens : i < j}
  IN IF closes = {} THEN <<>>
     ELSE SubSeq(response, SetMin(opens), SetMax(closes))

\* json.loads accepts "{" member ("," member)* "}" and "{" "}"
JsonAccepts(match) ==
  LET k == Len(match)
  IN /\ k >= 2
     /\ match[1] = "{"
     /\ match[k] = "}"
     /\ k = 2 \/ k % 2 = 1
     /\ \A i \in 2..(k - 1) : match[i] = (IF i % 2 = 0 THEN "s" ELSE ",")

\* PlannerAgent._create_fallback_plan with the graph {"step_1": []} of the
\* prompt's example left out
CreateFallbackPlanNoGraph(description) ==
  [steps |-> <<[description |-> description, priority |-> "medium",
                dependencies |-> <<>>]>>,
   dependency_graph |-> {}]

\* PlannerAgent._create_fallback_plan; dependency_graph is the set of the
\* dict's items
CreateFallbackPlan(description) ==
  [steps |-> <<[description |-> description, priority |-> "medium",
                dependencies |-> <<>>]>>,
   dependency_graph |-> {<<"step_1", <<>>>>}]

\* PlannerAgent._parse_plan_response
ParsePlanText(response) ==
  LET match == SearchObject(response)
  IN IF match # <<>> /\ JsonAccepts(match)
       THEN [steps |-> <<>>, dependency_graph |-> {}]
       ELSE CreateFallbackPlan(response)

\* PlannerAgent._create_plan_from_data: a Task per step, priority "medium"
\* when the step names none, parent_id the id of the original task
CreatePlan(original_task, plan_data) ==
  [goal |-> original_task,
   steps |-> [i \in 1..Len(plan_data.steps) |->
                [description |-> plan_data.steps[i].description,
                 priority |-> IF plan_data.steps[i].priority = ""
                                THEN "medium" ELSE plan_data.steps[i].priority,
                 dependencies |-> plan_data.steps[i].dependencies,
                 parent_id |-> original_task,
                 status |-> PENDING]],
   dependency_graph |-> plan_data.dependency_graph]

\* BaseTool(name, description): required is schema.parameters["required"],
\* permits what check_permissions answers (the base class answers True, a
\* sensitive tool overrides it)
NewTool(required, permits) ==
  [required |-> required, permits |-> permits, execution_count |-> 0,
   error_count |-> 0]

NoToolCall ==
  [made |-> FALSE, parameters |-> {}, awaited |-> <<>>, success |-> FALSE,
   error |-> "", raised |-> FALSE]

\* execute_with_retry has not been called
NoRetryRun ==
  [pc |-> "idle", max_retries |-> 0, attempt |-> 0, attempts |-> <<>>,
   sleeps |-> <<>>, status |-> PENDING, retry_count |-> 0, last_error |-> "",
   error |-> "", outcome |-> "", raised |-> ""]

\* no coroutine has called the short-term tier
NoCallers == <<>>

\* no call of cancel_task yet
NoSysCall ==
  [op |-> "none", task |-> 0, returned |-> FALSE, before |-> "",
   running |-> FALSE]

\* no run of the workflow: node is the node to run next, task_is the type of
\* state["task"], plan the number of steps of state["plan"] (-1 for {}),
\* plans the number of visits of the plan node, raised the class of the
\* exception that ended the run
NoWorkflow ==
  [node |-> "none", task_is |-> "Task", max_retries |-> 0, plan |-> -1,
   execution_result |-> "", critique_passed |-> FALSE, retry_count |-> 0,
   should_retry |-> FALSE, plans |-> 0, learned |-> FALSE, raised |-> ""]

\* nothing planned yet
NoPlanned ==
  [made |-> FALSE, task |-> 0, response |-> <<>>,
   plan |-> CreatePlan(0, [steps |-> <<>>, dependency_graph |-> {}])]

\* -------------------------------------------------------------------- state
VARIABLES
  mode,      \* "single": one call of execute; "sequential" / "parallel":
             \* execute_multi_task(tasks, parallel)
  n,         \* number of tasks handed in
  task,      \* the Task objects: status, retry_count, max_retries, result, error
  rc0,       \* per task, its retry_count when it was handed in
  pc,        \* where each run of execute stands
  plan,      \* the Plan of the current attempt
  execLog,   \* the executor calls of the current attempt, in call order
  planCount, \* calls of _planning_phase in the run
  retries,   \* calls of _retry_phase in the run (the depth of the recursion)
  critique,  \* the CritiqueResult of the latest critique
  ctx,       \* the context argument of the current call of execute
  episodes,  \* per task, the episodes written to episodic memory
  handled,   \* per task, calls of the orchestrator's handle_error
  trans,     \* per task, the status before the latest action followed by
             \* every status assigned in it
  slot,      \* per task, what its call of execute returned or raised
  orch,      \* the orchestrator: active_tasks, completed_tasks, failed_tasks,
             \* execution_count, state.is_busy, state.current_task
  results,   \* the list execute_multi_task builds
  returned,  \* execute_multi_task has returned
  lt,        \* LongTermMemory: entries, the index, its id mapping, and the
             \* calls of it that wait for the index
  ltCall,    \* the latest step of a call of LongTermMemory and its outcome
  stm,       \* ShortTermMemory: max_entries, ttl_seconds, entries
  now,       \* what datetime.utcnow() returns
  sem,       \* SemanticMemory: config, entries, the index, its id mapping,
             \* and the calls of it that wait for the index
  epi,       \* EpisodicMemory: entries and task_history
  disk,      \* what is under persist_path
  fresh,     \* the tier instance made on the same path after a save
  crit,      \* CriticAgent: quality_threshold, the response, the parsed result
  memCall,   \* the latest call of one of these tiers and its outcome
  planned,   \* the latest call of PlannerAgent.execute: the response and the Plan
  sysCall,   \* the latest call of AtlasSystem.cancel_task and its outcome
  tool,      \* a BaseTool: what its schema requires, what check_permissions
             \* answers, execution_count, error_count
  toolCall,  \* the latest call of BaseTool.execute: the methods it awaited
             \* and the ToolResult
  rw,        \* one call of ExecutorAgent.execute_with_retry
  co,        \* the coroutines that call a memory tier concurrently
  wf         \* one run of the LangGraph workflow: the state of the graph

orchVars ==
  <<mode, n, task, rc0, pc, plan, execLog, planCount, retries, critique, ctx,
    episodes, handled, trans, slot, orch, results, returned>>

ltVars == <<lt, ltCall>>

memVars == <<stm, now, sem, epi, disk, fresh, crit, memCall>>

\* what the calls outside the orchestration loop and the memory tiers leave
runVars == <<planned, sysCall, tool, toolCall, rw, co, wf>>

vars == <<orchVars, ltVars, memVars, runVars>>

\* what the language model can answer to an execution prompt
Outputs == {"a", "b"}

Feedbacks == {"fb1", "fb2"}

AreaLists == {<<>>, <<"clarity">>}

NoResult == <<>>

NoContext ==
  [given |-> FALSE, previous_attempt |-> NoResult, feedback |-> "",
   improvements_needed |-> <<>>]

NoCritique == [verdict |-> "none", feedback |-> "", areas |-> <<>>]

NoSlot == [kind |-> "none", result |-> NoResult, exc |-> NoExc, phase |-> ""]

\* Task(description=...) as constructed: status PENDING, no result, no error
NewTask(rc, mr) ==
  [status |-> PENDING, retry_count |-> rc, max_retries |-> mr,
   result |-> NoResult, error |-> ""]

NewOrchestrator ==
  [active_tasks |-> {}, completed_tasks |-> <<>>, failed_tasks |-> <<>>,
   execution_count |-> 0, is_busy |-> FALSE, current_task |-> 0]

\* LongTermMemory(min_importance): entries is self.entries; index is the
\* texts of the FAISS store, vectorstore tells the FAISS objects the tier
\* has named apart (0 for None) and id_to_entry is the keys of the vector
\* store's mapping.  detached holds the entry objects that are no longer in
\* self.entries while the mapping or a suspended call still names them,
\* pending the calls that wait for the index, and replaced the texts of the
\* FAISS objects self.vectorstore named before, by their serial, for as long
\* as a suspended call holds them.
NewLongTerm(minImp) ==
  [min_importance |-> minImp, entries |-> {}, index |-> <<>>,
   vectorstore |-> 0, id_to_entry |-> {}, nextId |-> 1, detached |-> {},
   pending |-> {}, replaced |-> <<>>]

\* a step of a call of the long-term tier: "call" when the coroutine was
\* called in it and "resume" when the index answered it; what the call
\* returned or will return (an id, the ids of batch_store, a count, 0 for
\* None and False, 1 for True, -1 when it raised), and whether the step left
\* the call suspended
LTCall(op, step, imp, content, value, suspended) ==
  [op |-> op, step |-> step, importance |-> imp, content |-> content,
   returned |-> value, suspended |-> suspended]

NoCall == LTCall("none", "call", 0, "", 0, FALSE)

\* ShortTermMemory(max_entries, ttl_seconds); entries is the dict, in the
\* order of insertion
NewShortTerm(maxEntries, ttl) ==
  [max_entries |-> maxEntries, ttl_seconds |-> ttl, entries |-> <<>>,
   nextId |-> 1]

\* SemanticMemory(**kwargs): BaseMemory keeps the keyword arguments in config
NewSemantic(minImp) ==
  [config |-> [min_importance |-> minImp], entries |-> {}, index |-> <<>>,
   vectorstore |-> 0, id_to_entry |-> {}, nextId |-> 1, detached |-> {},
   pending |-> {}, replaced |-> <<>>]

\* EpisodicMemory(): task_history maps a task id to its record
NewEpisodic == [entries |-> {}, task_history |-> <<>>, nextId |-> 1]

\* nothing under persist_path
NoDisk == [exists |-> FALSE, index |-> <<>>, mapping |-> {}]

\* no second instance yet; mapping is what its vector store maps ids to
NoFresh ==
  [made |-> FALSE, mem |-> NewLongTerm(DefaultMinImportance), mapping |-> {}]

NoParse == [score |-> 0, passed |-> FALSE, areas |-> <<>>, raised |-> FALSE]

NewCritic(threshold) ==
  [quality_threshold |-> threshold, response |-> <<>>, parsed |-> FALSE,
   result |-> NoParse]

NoMemCall == [op |-> "none", returned |-> 0, found |-> <<>>, removed |-> {}]

Terminal(t) == pc[t] \in {"done", "failed"}

InBatch(t) == t <= n

\* The inputs of a batch run are drawn from smaller sets than those of a
\* single run, and in a batch run only the plan text and the executor's model
\* call make a phase raise.
Rich == mode = "single"

InitCommon ==
  /\ pc = [t \in Tasks |-> "idle"]
  /\ plan = [t \in Tasks |-> NoPlan]
  /\ execLog = [t \in Tasks |-> <<>>]
  /\ planCount = [t \in Tasks |-> 0]
  /\ retries = [t \in Tasks |-> 0]
  /\ critique = [t \in Tasks |-> NoCritique]
  /\ ctx = [t \in Tasks |-> NoContext]
  /\ episodes = [t \in Tasks |-> <<>>]
  /\ handled = [t \in Tasks |-> 0]
  /\ trans = [t \in Tasks |-> <<PENDING>>]
  /\ slot = [t \in Tasks |-> NoSlot]
  /\ orch = NewOrchestrator
  /\ results = <<>>
  /\ returned = FALSE

\* no call of the planner
InitNoRuns ==
  /\ planned = NoPlanned
  /\ sysCall = NoSysCall
  /\ tool = NewTool({}, TRUE)
  /\ toolCall = NoToolCall
  /\ rw = NoRetryRun
  /\ wf = NoWorkflow
  /\ co = NoCallers

InitNoMemory ==
  /\ lt = NewLongTerm(DefaultMinImportance)
  /\ ltCall = NoCall

\* the tiers of a MemoryManager() nobody has called yet, and a critic
InitNoTiers ==
  /\ stm = NewShortTerm(DefaultMaxEntries, DefaultTtlSeconds)
  /\ now = 0
  /\ sem = NewSemantic(0)
  /\ epi = NewEpisodic
  /\ disk = NoDisk
  /\ fresh = NoFresh
  /\ crit = NewCritic(DefaultThreshold)
  /\ memCall = NoMemCall

\* one task handed to OrchestratorAgent.execute
Init ==
  /\ mode = "single"
  /\ n = 1
  /\ \E rc \in 0..1, mr \in 0..MaxRetriesBound :
       task = [t \in Tasks |-> IF t = 1 THEN NewTask(rc, mr) ELSE NewTask(0, 0)]
  /\ rc0 = [t \in Tasks |-> task[t].retry_count]
  /\ InitCommon
  /\ InitNoRuns
  /\ InitNoMemory
  /\ InitNoTiers

\* a list of tasks handed to execute_multi_task
InitMulti ==
  /\ mode \in {"sequential", "parallel"}
  /\ n \in 0..NumTasks
  /\ task \in [Tasks -> {NewTask(0, mr) : mr \in 0..1}]
  /\ \A t \in Tasks : ~InBatch(t) => task[t] = NewTask(0, 0)
  /\ rc0 = [t \in Tasks |-> 0]
  /\ InitCommon
  /\ InitNoRuns
  /\ InitNoMemory
  /\ InitNoTiers

\* ------------------------------------------------------------- input sets
BatchPlanTexts ==
  {tx \in PlanTexts :
     /\ tx.graph = NoGraph
     /\ Len(tx.steps) <= 1
     /\ \A i \in 1..Len(tx.steps) :
          tx.steps[i] \in {GoodStep, [GoodStep EXCEPT !.dependencies = <<"label">>]}}

PlanInputs == IF Rich THEN PlanTexts ELSE BatchPlanTexts

OutputsOf(t) == IF Rich THEN Outputs ELSE {IF t % 2 = 1 THEN "a" ELSE "b"}

CritiqueResults ==
  IF Rich THEN [passed : BOOLEAN, feedback : Feedbacks, areas : AreaLists]
  ELSE [passed : BOOLEAN, feedback : {"fb1"}, areas : {<<>>}]

\* ------------------------------------------------------------- orchestrator
\* OrchestratorAgent.execute: `not critique.passed and retry_count < max_retries`
ShouldRetryOffByOne(passed, rc, mr) == ~passed /\ rc <= mr

ShouldRetry(passed, rc, mr) == ~passed /\ rc < mr

\* `for step in plan.steps`: the next step to hand to the executor, given the
\* set of steps already handed over; 0 stands for the task itself, which is
\* what the executor gets when the plan has no steps.
NextStepByDependencies(p, done) ==
  IF p.nsteps = 0 THEN 0
  ELSE LET rest == (1..p.nsteps) \ done
           ready == {i \in rest : (p.graph[i] \cap (1..p.nsteps)) \subseteq done}
       IN IF ready # {} THEN SetMin(ready) ELSE SetMin(rest)

NextStep(p, done) ==
  IF p.nsteps = 0 THEN 0 ELSE SetMin((1..p.nsteps) \ done)

\* the executor calls an attempt makes before it moves on to the critique
CallsNeeded(p) == IF p.nsteps = 0 THEN 1 ELSE p.nsteps

StepsOf(log) == {log[i].step : i \in 1..Len(log)}

\* "\n\n".join(str(r) for r in results): the pieces in order; the result of
\* the executor itself when the task was executed directly
Combine(log) == [i \in 1..Len(log) |-> log[i].out]

\* _retry_phase: the context of the nested call of execute
RetryContextWithoutAttempt(result, c) ==
  [given |-> TRUE, previous_attempt |-> NoResult, feedback |-> c.feedback,
   improvements_needed |-> c.areas]

RetryContext(result, c) ==
  [given |-> TRUE, previous_attempt |-> result, feedback |-> c.feedback,
   improvements_needed |-> c.areas]

\* task.error = str(e)
StrTypeName(e) == e.type

Str(e) == e.message

\* `return await self._retry_phase(...)`: a frame that retried returns what
\* the nested call returned and does not go on to its own learning phase, so
\* the learning phase runs in the innermost frame only
LearningRunsPerFrame(t) == retries[t] + 1

LearningRuns(t) == 1

\* _learning_phase: outcome tag of the episode
OutcomeAlwaysSuccess(passed) == "success"

Outcome(passed) == IF passed THEN "success" ELSE "partial_success"

\* asyncio.gather(..., return_exceptions=True)
ReturnExceptionsOff == FALSE

ReturnExceptions == TRUE

\* execute, from its entry to the await in _planning_phase
Entered(o, t) ==
  [o EXCEPT !.is_busy = TRUE, !.current_task = t,
            !.active_tasks = @ \cup {t}]

\* the finally block of execute
Left(o, t) ==
  [o EXCEPT !.is_busy = FALSE, !.current_task = 0,
            !.active_tasks = @ \ {t}]

\* how often the except handler of execute runs for one exception: once in
\* every frame of the recursion execute -> _retry_phase -> execute
HandlerRuns(t) == retries[t] + 1

CanStart(t) ==
  /\ InBatch(t)
  /\ pc[t] = "idle"
  /\ ~returned
  /\ mode = "sequential" => \A j \in 1..(t - 1) : Terminal(j)
  /\ mode = "parallel" => \A j \in 1..(t - 1) : pc[j] # "idle"

\* asyncio.gather starts every coroutine before any of them is resumed
CanStep(t) ==
  /\ InBatch(t)
  /\ ~returned
  /\ mode = "parallel" => \A j \in 1..n : pc[j] # "idle"

\* execute(task) is called: lines 84-90 up to the first await
Start(t) ==
  /\ CanStart(t)
  /\ orch' = Entered(orch, t)
  /\ task' = [task EXCEPT ![t].status = PLANNING]
  /\ trans' = [trans EXCEPT ![t] = <<task[t].status, PLANNING>>]
  /\ planCount' = [planCount EXCEPT ![t] = @ + 1]
  /\ pc' = [pc EXCEPT ![t] = "planning"]
  /\ UNCHANGED <<mode, n, rc0, plan, execLog, retries, critique, ctx, episodes,
                 handled, slot, results, returned, ltVars, memVars, runVars>>

\* An exception e leaves a phase of task t: the except and finally blocks of
\* every frame of execute run, innermost first.  pre: the statuses assigned
\* to the task before the handler, inside the same step; log: the executor
\* calls made so far.
Fail(t, e, phase, pre, log) ==
  LET k == HandlerRuns(t)
      s == [kind |-> "exception", result |-> NoResult, exc |-> e, phase |-> phase]
  IN /\ task' = [task EXCEPT ![t].status = FAILED, ![t].error = Str(e)]
     /\ trans' = [trans EXCEPT ![t] = <<task[t].status>> \o pre \o Repeat(FAILED, k)]
     /\ orch' = [Left(orch, t) EXCEPT !.failed_tasks = @ \o Repeat(t, k)]
     /\ handled' = [handled EXCEPT ![t] = @ + k]
     /\ slot' = [slot EXCEPT ![t] = s]
     /\ pc' = [pc EXCEPT ![t] = "failed"]
     /\ execLog' = [execLog EXCEPT ![t] = log]
     /\ results' = IF mode = "sequential" THEN Append(results, s) ELSE results
     /\ returned' = (mode = "parallel" /\ ~ReturnExceptions)
     /\ UNCHANGED <<mode, n, rc0, plan, planCount, retries, critique, ctx,
                    episodes, ltVars, memVars, runVars>>

\* _planning_phase returns or raises: the model answered (or the call failed)
PlanningPhase(t) ==
  /\ CanStep(t)
  /\ pc[t] = "planning"
  /\ \/ Rich /\ Fail(t, Exc("RuntimeError", "planner model call failed"),
                     "planning", <<>>, execLog[t])
     \/ \E tx \in PlanInputs :
          LET r == PlannerExecute(tx) IN
            IF r.ok
              THEN /\ plan' = [plan EXCEPT ![t] = [nsteps |-> r.nsteps, graph |-> r.graph]]
                   /\ task' = [task EXCEPT ![t].status = EXECUTING]
                   /\ trans' = [trans EXCEPT ![t] = <<task[t].status, EXECUTING>>]
                   /\ execLog' = [execLog EXCEPT ![t] = <<>>]
                   /\ pc' = [pc EXCEPT ![t] = "executing"]
                   /\ UNCHANGED <<mode, n, rc0, planCount, retries, critique, ctx,
                                  episodes, handled, slot, orch, results,
                                  returned, ltVars, memVars, runVars>>
              ELSE Fail(t, r.error, "planning", <<>>, execLog[t])

Running(log) == Len(log) > 0 /\ Last(log).state = "running"

\* _execution_phase hands the next step (or the task) to ExecutorAgent.execute
ExecBegin(t) ==
  /\ CanStep(t)
  /\ pc[t] = "executing"
  /\ ~Running(execLog[t])
  /\ Len(execLog[t]) < CallsNeeded(plan[t])
  /\ execLog' = [execLog EXCEPT ![t] =
       Append(@, [step |-> NextStep(plan[t], StepsOf(@)), state |-> "running",
                  out |-> ""])]
  /\ trans' = [trans EXCEPT ![t] = <<task[t].status>>]
  /\ UNCHANGED <<mode, n, rc0, task, pc, plan, planCount, retries, critique, ctx,
                 episodes, handled, slot, orch, results, returned, ltVars,
                 memVars, runVars>>

\* ExecutorAgent.execute returns or raises.  The executor marks the Task it
\* was given COMPLETED or FAILED: that is the top-level task when the plan
\* has no steps, a subtask otherwise.
ExecEnd(t) ==
  /\ CanStep(t)
  /\ pc[t] = "executing"
  /\ Running(execLog[t])
  /\ LET cur == Last(execLog[t])
         direct == cur.step = 0
         ended(st, o) == [execLog[t] EXCEPT ![Len(execLog[t])] =
                            [step |-> cur.step, state |-> st, out |-> o]]
     IN \/ Fail(t, Exc("RuntimeError", "executor model call failed"), "execution",
                IF direct THEN <<FAILED>> ELSE <<>>, ended("raised", ""))
        \/ \E o \in OutputsOf(t) :
             LET log == ended("ok", o)
                 last == Len(log) = CallsNeeded(plan[t])
                 pre == IF direct THEN <<COMPLETED>> ELSE <<>>
             IN /\ execLog' = [execLog EXCEPT ![t] = log]
                /\ IF last
                     THEN /\ task' = [task EXCEPT ![t].status = CRITIQUING,
                                                  ![t].result = Combine(log)]
                          /\ trans' = [trans EXCEPT ![t] =
                                         <<task[t].status>> \o pre \o <<CRITIQUING>>]
                          /\ pc' = [pc EXCEPT ![t] = "critiquing"]
                     ELSE /\ task' = task
                          /\ trans' = [trans EXCEPT ![t] = <<task[t].status>>]
                          /\ pc' = pc
                /\ UNCHANGED <<mode, n, rc0, plan, planCount, retries, critique, ctx,
                               episodes, handled, slot, orch, results, returned,
                               ltVars, memVars, runVars>>

\* _critique_phase returns or raises; then the retry gate, and for a retry
\* _retry_phase and the entry of the nested execute
CritiquePhase(t) ==
  /\ CanStep(t)
  /\ pc[t] = "critiquing"
  /\ \/ Rich /\ Fail(t, Exc("RuntimeError", "critic model call failed"),
                     "critique", <<>>, execLog[t])
     \/ \E c \in CritiqueResults :
          /\ critique' = [critique EXCEPT ![t] =
               [verdict |-> IF c.passed THEN "pass" ELSE "fail",
                feedback |-> c.feedback, areas |-> c.areas]]
          /\ IF ShouldRetry(c.passed, task[t].retry_count, task[t].max_retries)
               THEN /\ task' = [task EXCEPT ![t].retry_count = @ + 1,
                                            ![t].status = PLANNING]
                    /\ trans' = [trans EXCEPT ![t] =
                                   <<task[t].status, RETRYING, PLANNING>>]
                    /\ retries' = [retries EXCEPT ![t] = @ + 1]
                    /\ ctx' = [ctx EXCEPT ![t] = RetryContext(task[t].result, c)]
                    /\ orch' = Entered(orch, t)
                    /\ planCount' = [planCount EXCEPT ![t] = @ + 1]
                    /\ pc' = [pc EXCEPT ![t] = "planning"]
               ELSE /\ trans' = [trans EXCEPT ![t] = <<task[t].status>>]
                    /\ pc' = [pc EXCEPT ![t] = "learning"]
                    /\ UNCHANGED <<task, retries, ctx, orch, planCount>>
          /\ UNCHANGED <<mode, n, rc0, plan, execLog, episodes, handled, slot,
                         results, returned, ltVars, memVars, runVars>>

\* _learning_phase, then lines 107-113 and the finally block of every frame
LearningPhase(t) ==
  /\ CanStep(t)
  /\ pc[t] = "learning"
  /\ \/ Rich /\ Fail(t, Exc("RuntimeError", "episodic memory failed"),
                     "learning", <<>>, execLog[t])
     \/ LET s == [kind |-> "result", result |-> task[t].result, exc |-> NoExc,
                  phase |-> ""]
            ep == [outcome |-> Outcome(critique[t].verdict = "pass"),
                   status |-> task[t].status,
                   lessons |-> critique[t].feedback]
        IN /\ episodes' = [episodes EXCEPT ![t] = @ \o Repeat(ep, LearningRuns(t))]
           /\ task' = [task EXCEPT ![t].status = COMPLETED]
           /\ trans' = [trans EXCEPT ![t] = <<task[t].status, COMPLETED>>]
           /\ orch' = [Left(orch, t) EXCEPT !.completed_tasks = Append(@, t),
                                            !.execution_count = @ + 1]
           /\ slot' = [slot EXCEPT ![t] = s]
           /\ pc' = [pc EXCEPT ![t] = "done"]
           /\ results' = IF mode = "sequential" THEN Append(results, s) ELSE results
           /\ UNCHANGED <<mode, n, rc0, plan, execLog, planCount, retries, critique,
                          ctx, handled, returned, ltVars, memVars, runVars>>

\* execute_multi_task returns: the list gather built (one slot per awaitable,
\* in the order they were given), or the list the loop built
Gather(slots, k) == [i \in 1..k |-> slots[i]]

Collect ==
  /\ mode # "single"
  /\ ~returned
  /\ \A t \in 1..n : Terminal(t)
  /\ results' = IF mode = "parallel"
                  THEN Gather(slot, n)
                  ELSE results
  /\ returned' = TRUE
  /\ UNCHANGED <<mode, n, rc0, task, pc, plan, execLog, planCount, retries, critique,
                 ctx, episodes, handled, trans, slot, orch, ltVars,
                 memVars, runVars>>

TaskNext ==
  \E t \in Tasks :
    \/ Start(t)
    \/ PlanningPhase(t)
    \/ ExecBegin(t)
    \/ ExecEnd(t)
    \/ CritiquePhase(t)
    \/ LearningPhase(t)

Next == TaskNext

Spec == Init /\ [][Next]_vars

NextMulti == TaskNext \/ Collect

SpecMulti == InitMulti /\ [][NextMulti]_vars

\* --------------------------------------------------------- long-term memory
Contents == {"c1", "c2"}

Importances ==
  {-1, DefaultMinImportance - 1, DefaultMinImportance, DefaultImportance,
   ImportanceScale, ImportanceScale + 1}

\* metadata or {}: the keys the tiers look at
EmptyMetadata == [type |-> "", category |-> "", confidence |-> 0]

\* the metadata store_fact builds
FactMetadata(category, confidence) ==
  [type |-> "fact", category |-> category, confidence |-> confidence]

\* MemoryEntry(...): pydantic rejects an importance outside [0.0, 1.0]
ValidImportance(imp) == imp >= 0 /\ imp <= ImportanceScale

\* `if hasattr(entry, key): setattr(entry, key, value)`: every attribute the
\* entry has is set, and nothing validates the value
SetAttr(e, key, value) ==
  IF key \in DOMAIN e THEN [e EXCEPT ![key] = value] ELSE e

\* the loop of update over its keyword arguments, from argument i on; the
\* arguments are pairs <<key, value>> in the order they were written
RECURSIVE SetAttrs(_, _, _)
SetAttrs(e, kwargs, i) ==
  IF i > Len(kwargs) THEN e
  ELSE SetAttrs(SetAttr(e, kwargs[i][1], kwargs[i][2]), kwargs, i + 1)

\* `"content" in kwargs`
HasKey(kwargs, key) == \E i \in 1..Len(kwargs) : kwargs[i][1] = key

\* the object self.vectorstore names: 0 for None
VectorStoreOf(m) == m.vectorstore

\* the texts of the FAISS object with this serial: the object
\* self.vectorstore names, or one it named when a call still suspended began
TextsOf(m, store) ==
  IF store = VectorStoreOf(m) THEN m.index ELSE m.replaced[store]

\* the ids of the entries the suspended calls hold
HeldByCalls(m) ==
  UNION {{p.entries[i] : i \in 1..Len(p.entries)} : p \in m.pending}

\* the coroutines suspended at the index are told apart by a number: a call
\* that suspends gets the least number no suspended call has
NextCaller(m) ==
  SetMin((1..(Cardinality(m.pending) + 1)) \ {p.caller : p \in m.pending})

\* a call suspended inside the vector store: the entries and texts it adds
\* or the top_k it asks for, and the FAISS object it was made on (0 when
\* there was none and the call waits for afrom_texts)
Suspend(m, op, ids, texts, top_k) ==
  [m EXCEPT !.pending = @ \cup {[op |-> op, entries |-> ids, texts |-> texts,
                                 top_k |-> top_k, into |-> VectorStoreOf(m),
                                 caller |-> NextCaller(m)]}]

\* the suspended call p goes on; a FAISS object that neither self.vectorstore
\* nor a suspended call names any more is out of reach
Release(m, p) ==
  LET waiting == m.pending \ {p}
      held == {q.into : q \in waiting} \cap DOMAIN m.replaced
  IN [m EXCEPT !.pending = waiting,
               !.replaced = IF held = {} THEN <<>>
                            ELSE [s \in held |-> m.replaced[s]]]

\* VectorStore.add_entries up to its await: with no entries it returns [] at
\* once; else the texts are read off the entries, and the call waits for
\* FAISS.afrom_texts when there is no store yet, else for aadd_texts of the
\* store there is
AddEntriesBegin(m, op, ids, texts) ==
  IF ids = <<>> THEN m ELSE Suspend(m, op, ids, texts, 0)

\* add_entries after the await: afrom_texts answered with a new store that
\* holds the texts of the call and self.vectorstore is set to it; or
\* aadd_texts has put the texts into the store it was called on, which
\* self.vectorstore may no longer name.  Then the id mapping gets the entries.
AddEntriesEnd(m, p) ==
  LET items == [i \in 1..Len(p.entries) |->
                  [entry_id |-> p.entries[i], content |-> p.texts[i]]]
      old == VectorStoreOf(m)
      m1 == IF p.into = 0
              THEN [m EXCEPT !.index = items,
                             !.vectorstore = @ + 1,
                             !.replaced =
                               IF old = 0 THEN @
                               ELSE [s \in (DOMAIN @) \cup {old} |->
                                       IF s = old THEN m.index ELSE @[s]]]
            ELSE IF p.into = old THEN [m EXCEPT !.index = @ \o items]
            ELSE [m EXCEPT !.replaced[p.into] = @ \o items]
  IN Release([m1 EXCEPT !.id_to_entry =
                          @ \cup {p.entries[i] : i \in 1..Len(p.entries)}], p)

\* VectorStore.search up to its await: with no store it returns [] at once,
\* else the call waits for asimilarity_search_with_score of the store
\* self.vectorstore names at that moment
SearchBegin(m, top_k) ==
  IF VectorStoreOf(m) = 0
    THEN [mem |-> m, suspended |-> FALSE]
    ELSE [mem |-> Suspend(m, "retrieve", <<>>, <<>>, top_k), suspended |-> TRUE]

\* what the library answers to a search on these texts: the top_k nearest of
\* them, all of them when there are fewer, nearest first; which are nearest
\* is up to the embedding.  An answer is a list of positions.
SearchAnswers(texts, top_k) ==
  LET k == IF top_k < Len(texts) THEN top_k ELSE Len(texts)
  IN {A \in [1..k -> 1..Len(texts)] :
        \A i, j \in 1..k : A[i] = A[j] => i = j}

\* VectorStore.search after the await, for the answer A to the suspended
\* call p: the ids of the entries it returns, in the order of the answer:
\* those whose id is in the id mapping as the call goes on
SearchResults(m, p, A) ==
  LET texts == TextsOf(m, p.into)
      ids == [k \in 1..Len(A) |-> texts[A[k]].entry_id]
  IN SelectSeq(ids, LAMBDA id : id \in m.id_to_entry)

\* LongTermMemory.store: the importance gate
BelowThresholdInclusive(imp, minImp) == imp <= minImp

BelowThreshold(imp, minImp) == imp < minImp

\* LongTermMemory.store(content, metadata, importance) up to the await
\* inside add_entries: the gate, the entry, self.entries.  returned is what
\* the call returns: at once when the gate refuses (0 for None) or
\* MemoryEntry raises (-1), else when the index has answered.
LTStoreBegin(m, content, metadata, imp) ==
  IF BelowThreshold(imp, m.min_importance)
    THEN [mem |-> m, returned |-> 0, suspended |-> FALSE]
  ELSE IF ~ValidImportance(imp)
    THEN [mem |-> m, returned |-> -1, suspended |-> FALSE]
  ELSE LET e == [id |-> m.nextId, content |-> content, importance |-> imp,
                 access_count |-> 0, metadata |-> metadata]
           m1 == [m EXCEPT !.entries = @ \cup {e}, !.nextId = @ + 1]
       IN [mem |-> AddEntriesBegin(m1, "store", <<e.id>>, <<content>>),
           returned |-> e.id, suspended |-> TRUE]

\* the loop of batch_store from position i of the lists on: the entries that
\* pass the gate are made and put into self.entries, made is their ids.
\* MemoryEntry raising ends the call and leaves what the loop did before.
RECURSIVE BatchLoop(_, _, _, _, _)
BatchLoop(m, contents, imps, i, made) ==
  IF i > Len(contents) \/ i > Len(imps)
    THEN [mem |-> m, made |-> made, raised |-> FALSE]
  ELSE IF BelowThreshold(imps[i], m.min_importance)
    THEN BatchLoop(m, contents, imps, i + 1, made)
  ELSE IF ~ValidImportance(imps[i])
    THEN [mem |-> m, made |-> made, raised |-> TRUE]
  ELSE LET e == [id |-> m.nextId, content |-> contents[i],
                 importance |-> imps[i], access_count |-> 0,
                 metadata |-> EmptyMetadata]
       IN BatchLoop([m EXCEPT !.entries = @ \cup {e}, !.nextId = @ + 1],
                    contents, imps, i + 1, Append(made, e.id))

\* LongTermMemory.batch_store(contents, None, importance_list) up to the
\* await inside add_entries; it returns the ids of the entries it made, at
\* once when no entry passed the gate (-1 when MemoryEntry raised)
LTBatchStoreBegin(m, contents, imps) ==
  LET r == BatchLoop(m, contents, imps, 1, <<>>)
      texts == [k \in 1..Len(r.made) |->
                  (CHOOSE e \in r.mem.entries : e.id = r.made[k]).content]
  IN IF r.raised THEN [mem |-> r.mem, returned |-> -1, suspended |-> FALSE]
     ELSE IF Len(r.made) = 0
       THEN [mem |-> r.mem, returned |-> <<>>, suspended |-> FALSE]
     ELSE [mem |-> AddEntriesBegin(r.mem, "batch_store", r.made, texts),
           returned |-> r.made, suspended |-> TRUE]

\* what the suspended call p returns once the index has answered: store the
\* id of its entry, batch_store the ids of its entries, update True
ReturnedBy(p) ==
  CASE p.op = "store" -> p.entries[1]
    [] p.op = "batch_store" -> p.entries
    [] OTHER -> 1

\* `del self.entries[id]` and VectorStore.delete_entry for these ids: the
\* entries leave self.entries and the id mapping, the index keeps their
\* vectors.  An entry a suspended call holds stays alive with the call.
Forget(m, ids) ==
  [m EXCEPT !.entries = {e \in @ : e.id \notin ids},
            !.id_to_entry = @ \ ids,
            !.detached = @ \cup {e \in m.entries :
                                   e.id \in ids /\ e.id \in HeldByCalls(m)}]

\* LongTermMemory.delete; 1 stands for True and 0 for False
LTDelete(m, id) ==
  IF \E e \in m.entries : e.id = id
    THEN [mem |-> Forget(m, {id}), returned |-> 1]
    ELSE [mem |-> m, returned |-> 0]

\* BaseMemory.clear, which the tier inherits: self.entries is emptied and
\* the vector store is not told, so its mapping goes on naming the entries
Clear(m) ==
  [mem |-> [m EXCEPT !.entries = {},
                     !.detached = @ \cup {e \in m.entries :
                                            e.id \in m.id_to_entry
                                                       \cup HeldByCalls(m)}],
   returned |-> Cardinality(m.entries)]

InitLT ==
  /\ mode = "single"
  /\ n = 0
  /\ task = [t \in Tasks |-> NewTask(0, 0)]
  /\ rc0 = [t \in Tasks |-> 0]
  /\ InitCommon
  /\ InitNoRuns
  /\ \E mi \in {0, DefaultMinImportance, ImportanceScale} : lt = NewLongTerm(mi)
  /\ ltCall = NoCall
  /\ InitNoTiers

\* importance_list of a batch of two
BatchImportances ==
  {<<a, b>> : a, b \in {DefaultMinImportance - 1, DefaultMinImportance,
                        DefaultImportance, ImportanceScale + 1}}

\* so many calls of a tier are suspended at most
CanSuspend(m) == Cardinality(m.pending) < NumCallers

\* a coroutine calls store and runs to the await of the index, or to its
\* end when the gate refuses or MemoryEntry raises
StoreCall ==
  /\ lt.nextId <= MaxStores
  /\ CanSuspend(lt)
  /\ \E c \in Contents, imp \in Importances :
       LET r == LTStoreBegin(lt, c, EmptyMetadata, imp)
       IN /\ lt' = r.mem
          /\ ltCall' = LTCall("store", "call", imp, c, r.returned, r.suspended)
  /\ UNCHANGED <<runVars, orchVars, memVars>>

\* a coroutine calls batch_store with two contents
BatchStoreCall ==
  /\ lt.nextId < MaxStores
  /\ CanSuspend(lt)
  /\ \E imps \in BatchImportances :
       LET r == LTBatchStoreBegin(lt, <<"c1", "c2">>, imps)
       IN /\ lt' = r.mem
          /\ ltCall' = LTCall("batch_store", "call", imps[1], "c1", r.returned,
                              r.suspended)
  /\ UNCHANGED <<runVars, orchVars, memVars>>

\* the index answers a suspended store, batch_store or update, which runs
\* to its end
IndexAnswers ==
  /\ \E p \in lt.pending :
       /\ p.op # "retrieve"
       /\ lt' = AddEntriesEnd(lt, p)
       /\ ltCall' = LTCall(p.op, "resume", 0, p.texts[1], ReturnedBy(p), FALSE)
  /\ UNCHANGED <<runVars, orchVars, memVars>>

DeleteCall ==
  /\ \E id \in 1..MaxStores :
       LET r == LTDelete(lt, id)
       IN /\ lt' = r.mem
          /\ ltCall' = LTCall("delete", "call", 0, "", r.returned, FALSE)
  /\ UNCHANGED <<runVars, orchVars, memVars>>

ClearCall ==
  /\ LET r == Clear(lt)
     IN /\ lt' = r.mem
        /\ ltCall' = LTCall("clear", "call", 0, "", r.returned, FALSE)
  /\ UNCHANGED <<runVars, orchVars, memVars>>

NextLT ==
  StoreCall \/ BatchStoreCall \/ IndexAnswers \/ DeleteCall \/ ClearCall

SpecLT == InitLT /\ [][NextLT]_vars

\* ---------------------------------------------------------- semantic memory
\* importances a caller can pass, those MemoryEntry rejects among them
AnyImportances ==
  {-1, 0, DefaultMinImportance - 1, DefaultImportance, ImportanceScale + 1}

\* SemanticMemory.store(content, metadata, importance) up to the await
\* inside add_entries: the entry and self.entries; the code compares the
\* importance with nothing.  returned is what the call returns, at once when
\* MemoryEntry raises (-1), else when the index has answered.
SemStoreBegin(m, content, metadata, imp) ==
  IF ~ValidImportance(imp)
    THEN [mem |-> m, returned |-> -1, suspended |-> FALSE]
  ELSE LET e == [id |-> m.nextId, content |-> content, importance |-> imp,
                 access_count |-> 0, metadata |-> metadata]
           m1 == [m EXCEPT !.entries = @ \cup {e}, !.nextId = @ + 1]
       IN [mem |-> AddEntriesBegin(m1, "store", <<e.id>>, <<content>>),
           returned |-> e.id, suspended |-> TRUE]

\* SemanticMemory.store_fact awaits store: the confidence is the importance
StoreFact(m, fact, category, confidence) ==
  SemStoreBegin(m, fact, FactMetadata(category, confidence), confidence)

\* MemoryManager.learn_fact awaits store_fact with its arguments
LearnFact(m, fact, category, confidence) ==
  StoreFact(m, fact, category, confidence)

\* SemanticMemory.delete
SemDelete(m, id) ==
  IF \E e \in m.entries : e.id = id
    THEN [mem |-> Forget(m, {id}), returned |-> 1]
    ELSE [mem |-> m, returned |-> 0]

\* SemanticMemory.retrieve up to the await inside VectorStore.search; with
\* no store it returns [] at once
SemRetrieveBegin(m, top_k) == SearchBegin(m, top_k)

\* SemanticMemory.retrieve from the await on, for the answer A of the index:
\* the entries of the search, in order; nothing is counted
SemRetrieveEnd(m, p, A) ==
  LET found == SearchResults(m, p, A)
  IN [mem |-> Release(m, p), returned |-> Len(found), found |-> found]

\* SemanticMemory.update(memory_id, **kwargs): setattr on the entry, with no
\* validation; when the content was given the text of the entry is indexed
\* once more, and the call waits for the index before it returns True
SemUpdate(m, id, kwargs) ==
  IF ~(\E e \in m.entries : e.id = id)
    THEN [mem |-> m, returned |-> 0, suspended |-> FALSE]
  ELSE LET entry == SetAttrs(CHOOSE e \in m.entries : e.id = id, kwargs, 1)
           m1 == [m EXCEPT !.entries =
                    {IF e.id = id THEN entry ELSE e : e \in @}]
       IN IF HasKey(kwargs, "content")
            THEN [mem |-> AddEntriesBegin(m1, "update", <<id>>,
                                          <<entry.content>>),
                  returned |-> 1, suspended |-> TRUE]
            ELSE [mem |-> m1, returned |-> 1, suspended |-> FALSE]

\* `entry.metadata.get("confidence", 1.0)`: of the metadata the model has
\* only that of store_fact holds the key
Confidence(e) ==
  IF e.metadata.type = "fact" THEN e.metadata.confidence ELSE ImportanceScale

\* SemanticMemory.consolidate: delete() of every entry whose confidence is
\* below 0.3; it returns how many there were.  The save that ends it writes
\* nothing for a tier made without a persist_path.
SemConsolidate(m) ==
  LET to_remove == {e \in m.entries : Confidence(e) < ConsolidateConfidence}
  IN [mem |-> Forget(m, {e.id : e \in to_remove}),
      returned |-> Cardinality(to_remove)]

\* a step of a call of the semantic tier, as LTCall tells it
SemCall(op, c, imp, r) ==
  /\ sem' = r.mem
  /\ memCall' = LTCall(op, "call", imp, c, r.returned, r.suspended)
  /\ UNCHANGED <<runVars, orchVars, ltVars, stm, now, epi, disk, fresh, crit>>

InitSem ==
  /\ mode = "single"
  /\ n = 0
  /\ task = [t \in Tasks |-> NewTask(0, 0)]
  /\ rc0 = [t \in Tasks |-> 0]
  /\ InitCommon
  /\ InitNoRuns
  /\ InitNoMemory
  /\ stm = NewShortTerm(DefaultMaxEntries, DefaultTtlSeconds)
  /\ now = 0
  /\ \E mi \in {0, DefaultMinImportance} : sem = NewSemantic(mi)
  /\ epi = NewEpisodic
  /\ disk = NoDisk
  /\ fresh = NoFresh
  /\ crit = NewCritic(DefaultThreshold)
  /\ memCall = NoCall

\* a coroutine calls store, store_fact or learn_fact and runs to the await of
\* the index, or to its end when MemoryEntry raises; one call at a time waits
\* for the index in this part
SemStoreCall ==
  /\ sem.nextId <= MaxStores
  /\ sem.pending = {}
  /\ \E c \in {"c1"}, imp \in AnyImportances :
       SemCall("store", c, imp, SemStoreBegin(sem, c, EmptyMetadata, imp))

StoreFactCall ==
  /\ sem.nextId <= MaxStores
  /\ sem.pending = {}
  /\ \E c \in {"c1"}, imp \in AnyImportances :
       SemCall("store_fact", c, imp, StoreFact(sem, c, "cat", imp))

LearnFactCall ==
  /\ sem.nextId <= MaxStores
  /\ sem.pending = {}
  /\ \E c \in {"c1"}, imp \in AnyImportances :
       SemCall("learn_fact", c, imp, LearnFact(sem, c, "cat", imp))

\* the index answers a suspended store or update of the semantic tier, which
\* returns the id of its entry, or True
SemIndexAnswers ==
  /\ \E p \in sem.pending :
       /\ p.op # "retrieve"
       /\ sem' = AddEntriesEnd(sem, p)
       /\ memCall' = LTCall(p.op, "resume", 0, p.texts[1], ReturnedBy(p), FALSE)
  /\ UNCHANGED <<runVars, orchVars, ltVars, stm, now, epi, disk, fresh, crit>>

\* delete and the inherited clear, which may come while a store waits
SemDeleteCall ==
  \E id \in 1..MaxStores :
    LET r == SemDelete(sem, id)
    IN SemCall("delete", "", 0,
               [mem |-> r.mem, returned |-> r.returned, suspended |-> FALSE])

SemClearCall ==
  LET r == Clear(sem)
  IN SemCall("clear", "", 0,
             [mem |-> r.mem, returned |-> r.returned, suspended |-> FALSE])

\* the keyword arguments update of the semantic tier is called with
SemUpdates ==
  {<<<<"importance", ImportanceScale + 5>>>>,
   <<<<"content", "c2">>>>,
   <<<<"access_count", ConsolidateAccessCount>>, <<"content", "c2">>>>}

\* update; one that gives the content waits for the index
SemUpdateCall ==
  \E id \in 1..MaxStores, kwargs \in SemUpdates :
    /\ HasKey(kwargs, "content")
         => /\ sem.pending = {}
            /\ Len(sem.index) + Cardinality(sem.pending) <= MaxStores
    /\ SemCall("update", "", 0, SemUpdate(sem, id, kwargs))

SemConsolidateCall ==
  LET r == SemConsolidate(sem)
  IN SemCall("consolidate", "", 0,
             [mem |-> r.mem, returned |-> r.returned, suspended |-> FALSE])

NextSem ==
  \/ SemStoreCall
  \/ StoreFactCall
  \/ LearnFactCall
  \/ SemIndexAnswers
  \/ SemUpdateCall
  \/ SemDeleteCall
  \/ SemClearCall
  \/ SemConsolidateCall

SpecSem == InitSem /\ [][NextSem]_vars

\* -------------------------------------------------------- short-term memory
\* A text is the sequence of its characters.
\* str.lower() on the letters the texts of the model are made of
LowerCase ==
  [A |-> "a", B |-> "b", C |-> "c", D |-> "d", E |-> "e", F |-> "f",
   G |-> "g", H |-> "h", I |-> "i", J |-> "j", K |-> "k", L |-> "l",
   M |-> "m", N |-> "n", O |-> "o", P |-> "p", Q |-> "q", R |-> "r",
   S |-> "s", T |-> "t", U |-> "u", V |-> "v", W |-> "w", X |-> "x",
   Y |-> "y", Z |-> "z"]

UpperCase == {"A", "B", "C", "D", "E", "F", "G", "H", "I", "J", "K", "L", "M",
              "N", "O", "P", "Q", "R", "S", "T", "U", "V", "W", "X", "Y", "Z"}

LowerChar(ch) == IF ch \in UpperCase THEN LowerCase[ch] ELSE ch

Lower(s) == [i \in 1..Len(s) |-> LowerChar(s[i])]

\* `a in b` for two texts
Contains(b, a) ==
  \E i \in 0..(Len(b) - Len(a)) : \A k \in 1..Len(a) : b[i + k] = a[k]

\* `query.lower() in entry.content.lower()`
Matches(query, content) ==
  LET q == Lower(query)
      c == Lower(content)
  IN Contains(c, q)

\* what callers store in the short-term tier and what they look for
STContents == {<<"c", "1">>, <<"C", "2">>}

Queries == {<<"c">>, <<"C", "1">>, <<"x">>}

STImportances == {ImportanceScale - 2, ImportanceScale + 1}

\* the positions of the dict that hold an entry with this id
Positions(m, id) == {i \in 1..Len(m.entries) : m.entries[i].id = id}

RemoveAt(seq, i) == SubSeq(seq, 1, i - 1) \o SubSeq(seq, i + 1, Len(seq))

\* min(self.entries.values(), key=lambda e: e.last_accessed): the first entry
\* in the order of the dict among those with the least last_accessed
OldestNewestAccess(entries) ==
  CHOOSE i \in 1..Len(entries) :
    \A j \in 1..Len(entries) :
      /\ entries[i].last_accessed >= entries[j].last_accessed
      /\ j < i => entries[j].last_accessed < entries[i].last_accessed

Oldest(entries) ==
  CHOOSE i \in 1..Len(entries) :
    \A j \in 1..Len(entries) :
      /\ entries[i].last_accessed <= entries[j].last_accessed
      /\ j < i => entries[j].last_accessed > entries[i].last_accessed

\* ShortTermMemory._evict_oldest
EvictOldest(m) ==
  IF Len(m.entries) = 0 THEN m
  ELSE [m EXCEPT !.entries = RemoveAt(@, Oldest(@))]

\* `len(self.entries) >= self.max_entries`
AtCapacityStrict(m) == Len(m.entries) > m.max_entries

AtCapacity(m) == Len(m.entries) >= m.max_entries

\* ShortTermMemory.store at time t: the memory after the call and what the
\* call returned (-1 when MemoryEntry raised, which happens before anything
\* is evicted)
STStore(m, t, content, metadata, imp) ==
  IF ~ValidImportance(imp)
    THEN [mem |-> m, returned |-> -1, found |-> <<>>]
  ELSE LET e == [id |-> m.nextId, content |-> content, importance |-> imp,
                 access_count |-> 0, metadata |-> metadata,
                 created_at |-> t, last_accessed |-> t]
           m1 == IF AtCapacity(m) THEN EvictOldest(m) ELSE m
       IN [mem |-> [m1 EXCEPT !.entries = Append(@, e), !.nextId = @ + 1],
           returned |-> e.id, found |-> <<>>]

\* _clean_expired: `age > self.ttl_seconds`, the age counted from created_at
ExpiredSinceAccess(e, t, ttl) == t - e.last_accessed > ttl

Expired(e, t, ttl) == t - e.created_at > ttl

\* ShortTermMemory._clean_expired at time t
CleanExpired(m, t) ==
  [m EXCEPT !.entries = SelectSeq(@, LAMBDA e : ~Expired(e, t, m.ttl_seconds))]

\* the loop of retrieve from position i of the dict on: the ids appended to
\* results, the loop ending once len(results) >= top_k after an append
RECURSIVE Scan(_, _, _, _, _)
Scan(entries, i, query, top_k, found) ==
  IF i > Len(entries) THEN found
  ELSE IF Matches(query, entries[i].content)
    THEN LET r == Append(found, entries[i].id)
         IN IF Len(r) >= top_k THEN r
            ELSE Scan(entries, i + 1, query, top_k, r)
  ELSE Scan(entries, i + 1, query, top_k, found)

Touch(e, t) == [e EXCEPT !.access_count = @ + 1, !.last_accessed = t]

\* ShortTermMemory.retrieve at time t: the memory after the call and, in
\* found, the ids of the entries returned, in order
STRetrieve(m, t, query, top_k) ==
  LET m1 == CleanExpired(m, t)
      found == Scan(m1.entries, 1, query, top_k, <<>>)
      hits == {found[i] : i \in 1..Len(found)}
      touched == [i \in 1..Len(m1.entries) |->
                    IF m1.entries[i].id \in hits
                      THEN Touch(m1.entries[i], t)
                      ELSE m1.entries[i]]
  IN [mem |-> [m1 EXCEPT !.entries = touched], returned |-> Len(found),
      found |-> found]

\* sorted(self.entries.values(), key=lambda e: e.created_at, reverse=True):
\* the sort is stable, so of entries made at the same time the one that
\* stands first in the dict stands first after it
RECURSIVE SortedByRecency(_)
SortedByRecency(list) ==
  IF Len(list) = 0 THEN <<>>
  ELSE LET i == CHOOSE i \in 1..Len(list) :
                  /\ \A j \in 1..Len(list) :
                       list[j].created_at <= list[i].created_at
                  /\ \A j \in 1..(i - 1) :
                       list[j].created_at < list[i].created_at
       IN <<list[i]>> \o SortedByRecency(RemoveAt(list, i))

\* ShortTermMemory.get_recent(limit) at time t, limit >= 0: the expired
\* entries go, and the entries made last are returned, the newest first;
\* found is their ids
GetRecent(m, t, limit) ==
  LET m1 == CleanExpired(m, t)
      sorted_entries == SortedByRecency(m1.entries)
      cut == SubSeq(sorted_entries, 1,
                    IF limit < Len(sorted_entries) THEN limit
                    ELSE Len(sorted_entries))
      found == [k \in 1..Len(cut) |-> cut[k].id]
  IN [mem |-> m1, returned |-> Len(found), found |-> found]

\* the keyword arguments update is called with: attributes a MemoryEntry has
\* and one it has not, one in a call or two
UpdateKwargs ==
  {<<<<"importance", ImportanceScale + 5>>>>,
   <<<<"access_count", PromotionAccessCount + 1>>>>,
   <<<<"last_accessed", 0>>>>,
   <<<<"created_at", 0>>>>,
   <<<<"priority", 0>>, <<"last_accessed", 0>>>>}

\* ShortTermMemory.update(memory_id, **kwargs); 1 stands for True
STUpdate(m, id, kwargs) ==
  IF Positions(m, id) = {}
    THEN [mem |-> m, returned |-> 0, found |-> <<>>]
  ELSE [mem |-> [m EXCEPT !.entries =
                   [i \in 1..Len(@) |->
                      IF @[i].id = id THEN SetAttrs(@[i], kwargs, 1)
                      ELSE @[i]]],
        returned |-> 1, found |-> <<>>]

\* ShortTermMemory.delete
STDelete(m, id) ==
  IF Positions(m, id) = {}
    THEN [mem |-> m, returned |-> 0, found |-> <<>>]
  ELSE [mem |-> [m EXCEPT !.entries = SelectSeq(@, LAMBDA e : e.id # id)],
        returned |-> 1, found |-> <<>>]

\* BaseMemory.clear, which ShortTermMemory inherits: the dict is emptied and
\* the number of entries it held returned
STClear(m) ==
  [mem |-> [m EXCEPT !.entries = <<>>], returned |-> Len(m.entries),
   found |-> <<>>]

\* ShortTermMemory.consolidate at time t: the expired entries go, the
\* candidates for promotion are counted
STConsolidate(m, t) ==
  LET m1 == CleanExpired(m, t)
  IN [mem |-> m1,
      returned |-> Cardinality({i \in 1..Len(m1.entries) :
                      \/ m1.entries[i].importance > PromotionImportance
                      \/ m1.entries[i].access_count > PromotionAccessCount}),
      found |-> <<>>]

\* max_entries and ttl_seconds of the short-term tiers of the model
Capacities == {1, 2}

Ttls == {1}

TopKs == {0, 1, 2}

\* one store more than the largest capacity fills every tier and evicts
STIds == 1..(SetMax(Capacities) + 1)

\* what the concurrent callers store and ask for
CoContents == {<<"c", "1">>}

CoImportances == {ImportanceScale - 2}

CoQueries == {<<"c">>, <<"x">>}

CoTopKs == {1}

\* the top_k of the retrieves that run between updates, deletes and clears
STTopKs == {1}

\* the limits get_recent is called with
RecentLimits == {1, 2}

Elements(seq) == {seq[i] : i \in 1..Len(seq)}

Ids(entries) == {entries[i].id : i \in 1..Len(entries)}

\* a call of the short-term tier: what it returned and the entries that were
\* in the dict before it and are not after it
STCall(op, r) ==
  /\ stm' = r.mem
  /\ memCall' = [op |-> op, returned |-> r.returned, found |-> r.found,
                 removed |-> {e \in Elements(stm.entries) :
                                e.id \notin Ids(r.mem.entries)}]
  /\ UNCHANGED <<runVars, orchVars, ltVars, now, sem, epi, disk, fresh, crit>>

InitST ==
  /\ mode = "single"
  /\ n = 0
  /\ task = [t \in Tasks |-> NewTask(0, 0)]
  /\ rc0 = [t \in Tasks |-> 0]
  /\ InitCommon
  /\ InitNoRuns
  /\ InitNoMemory
  /\ \E cap \in Capacities, ttl \in Ttls : stm = NewShortTerm(cap, ttl)
  /\ now = 0
  /\ sem = NewSemantic(0)
  /\ epi = NewEpisodic
  /\ disk = NoDisk
  /\ fresh = NoFresh
  /\ crit = NewCritic(DefaultThreshold)
  /\ memCall = NoMemCall

STStoreCall ==
  /\ stm.nextId \in STIds
  /\ \E c \in CoContents, imp \in STImportances :
       STCall("store", STStore(stm, now, c, EmptyMetadata, imp))

STRetrieveCall ==
  /\ \A i \in 1..Len(stm.entries) : stm.entries[i].access_count < MaxClock
  /\ \E q \in CoQueries, k \in STTopKs :
       STCall("retrieve", STRetrieve(stm, now, q, k))

STUpdateCall ==
  \E id \in STIds, kwargs \in UpdateKwargs :
    STCall("update", STUpdate(stm, id, kwargs))

STDeleteCall ==
  \E id \in STIds : STCall("delete", STDelete(stm, id))

STGetRecentCall ==
  \E limit \in RecentLimits :
    STCall("get_recent", GetRecent(stm, now, limit))

STClearCall == STCall("clear", STClear(stm))

STConsolidateCall == STCall("consolidate", STConsolidate(stm, now))

\* time passes between two calls
Tick ==
  /\ now < MaxClock
  /\ now' = now + 1
  /\ UNCHANGED <<runVars, orchVars, ltVars, stm, sem, epi, disk, fresh, crit, memCall>>

NextST ==
  \/ STStoreCall
  \/ STRetrieveCall
  \/ STUpdateCall
  \/ STDeleteCall
  \/ STGetRecentCall
  \/ STClearCall
  \/ STConsolidateCall
  \/ Tick

SpecST == InitST /\ [][NextST]_vars

\* --------------------------------------------- short-term memory: retrieval
\* a call of this part: what retrieve was asked and the ids it returned
STFindCall(op, query, top_k, found) ==
  [op |-> op, query |-> query, top_k |-> top_k, found |-> found]

InitSTFind ==
  /\ mode = "single"
  /\ n = 0
  /\ task = [t \in Tasks |-> NewTask(0, 0)]
  /\ rc0 = [t \in Tasks |-> 0]
  /\ InitCommon
  /\ InitNoRuns
  /\ InitNoMemory
  /\ \E cap \in Capacities, ttl \in Ttls : stm = NewShortTerm(cap, ttl)
  /\ now = 0
  /\ sem = NewSemantic(0)
  /\ epi = NewEpisodic
  /\ disk = NoDisk
  /\ fresh = NoFresh
  /\ crit = NewCritic(DefaultThreshold)
  /\ memCall = STFindCall("none", <<>>, 0, <<>>)

STFindSame == <<runVars, orchVars, ltVars, now, sem, epi, disk, fresh, crit>>

STFindStoreCall ==
  /\ stm.nextId \in STIds
  /\ \E c \in STContents :
       LET r == STStore(stm, now, c, EmptyMetadata, ImportanceScale - 2)
       IN /\ stm' = r.mem
          /\ memCall' = STFindCall("store", <<>>, 0, <<>>)
  /\ UNCHANGED STFindSame

STFindRetrieveCall ==
  /\ \A i \in 1..Len(stm.entries) : stm.entries[i].access_count < MaxClock
  /\ \E q \in Queries, k \in TopKs :
       LET r == STRetrieve(stm, now, q, k)
       IN /\ stm' = r.mem
          /\ memCall' = STFindCall("retrieve", q, k, r.found)
  /\ UNCHANGED STFindSame

NextSTFind == STFindStoreCall \/ STFindRetrieveCall \/ Tick

SpecSTFind == InitSTFind /\ [][NextSTFind]_vars

\* ---------------------------------------------------------- episodic memory
\* EpisodicMemory.store at time t: the memory after the call and what the
\* call returned
EpiStore(m, t, content, metadata, imp) ==
  IF ~ValidImportance(imp)
    THEN [mem |-> m, returned |-> -1]
  ELSE LET e == [id |-> m.nextId, content |-> content, importance |-> imp,
                 access_count |-> 0, metadata |-> metadata,
                 created_at |-> t, last_accessed |-> t]
       IN [mem |-> [m EXCEPT !.entries = @ \cup {e}, !.nextId = @ + 1],
           returned |-> e.id]

\* `task.status.value == "completed"`
IsSuccess(status) == status = COMPLETED

\* `0.8 if metadata["success"] else 0.9`
EpisodeImportanceSwapped(success) ==
  IF success THEN ImportanceScale - 1 ELSE ImportanceScale - 2

EpisodeImportance(success) ==
  IF success THEN ImportanceScale - 2 ELSE ImportanceScale - 1

\* the texts of the episodes are sequences of characters
Whitespace == {" ", "\n"}

\* str.strip()
Strip(s) ==
  IF \A i \in 1..Len(s) : s[i] \in Whitespace THEN <<>>
  ELSE LET first == CHOOSE i \in 1..Len(s) :
                      /\ s[i] \notin Whitespace
                      /\ \A j \in 1..(i - 1) : s[j] \in Whitespace
           last == CHOOSE i \in 1..Len(s) :
                     /\ s[i] \notin Whitespace
                     /\ \A j \in (i + 1)..Len(s) : s[j] \in Whitespace
       IN SubSeq(s, first, last)

\* `{task.status}` in an f-string: from Python 3.11 on the format of a member
\* of an Enum that is also a str is its str(), the name of the class and of
\* the member (the repository's bytecode is of Python 3.11)
StatusText(status) ==
  CASE status = PENDING -> <<"T", "a", "s", "k", "S", "t", "a", "t", "u", "s",
                             ".", "P", "E", "N", "D", "I", "N", "G">>
    [] status = PLANNING -> <<"T", "a", "s", "k", "S", "t", "a", "t", "u",
                              "s", ".", "P", "L", "A", "N", "N", "I", "N",
                              "G">>
    [] status = EXECUTING -> <<"T", "a", "s", "k", "S", "t", "a", "t", "u",
                               "s", ".", "E", "X", "E", "C", "U", "T", "I",
                               "N", "G">>
    [] status = CRITIQUING -> <<"T", "a", "s", "k", "S", "t", "a", "t", "u",
                                "s", ".", "C", "R", "I", "T", "I", "Q", "U",
                                "I", "N", "G">>
    [] status = RETRYING -> <<"T", "a", "s", "k", "S", "t", "a", "t", "u",
                              "s", ".", "R", "E", "T", "R", "Y", "I", "N",
                              "G">>
    [] status = COMPLETED -> <<"T", "a", "s", "k", "S", "t", "a", "t", "u",
                               "s", ".", "C", "O", "M", "P", "L", "E", "T",
                               "E", "D">>
    [] status = FAILED -> <<"T", "a", "s", "k", "S", "t", "a", "t", "u", "s",
                            ".", "F", "A", "I", "L", "E", "D">>
    [] status = CANCELLED -> <<"T", "a", "s", "k", "S", "t", "a", "t", "u",
                               "s", ".", "C", "A", "N", "C", "E", "L", "L",
                               "E", "D">>

\* `{trace.agent_type}`
AgentTypeText(agent_type) ==
  CASE agent_type = "orchestrator" -> <<"A", "g", "e", "n", "t", "T", "y",
                                        "p", "e", ".", "O", "R", "C", "H",
                                        "E", "S", "T", "R", "A", "T", "O",
                                        "R">>
    [] agent_type = "planner" -> <<"A", "g", "e", "n", "t", "T", "y", "p",
                                   "e", ".", "P", "L", "A", "N", "N", "E",
                                   "R">>
    [] agent_type = "executor" -> <<"A", "g", "e", "n", "t", "T", "y", "p",
                                    "e", ".", "E", "X", "E", "C", "U", "T",
                                    "O", "R">>
    [] agent_type = "critic" -> <<"A", "g", "e", "n", "t", "T", "y", "p", "e",
                                  ".", "C", "R", "I", "T", "I", "C">>
    [] agent_type = "memory" -> <<"A", "g", "e", "n", "t", "T", "y", "p", "e",
                                  ".", "M", "E", "M", "O", "R", "Y">>
    [] agent_type = "tool" -> <<"A", "g", "e", "n", "t", "T", "y", "p", "e",
                                ".", "T", "O", "O", "L">>

Digits == <<"0", "1", "2", "3", "4", "5", "6", "7", "8", "9">>

\* `{trace.duration}`: the repr of a float that is a whole number below 10
DurationText(x) == <<Digits[x + 1], ".", "0">>

\* `{trace.cost:.4f}` of such a float
CostText(x) == <<Digits[x + 1], ".", "0", "0", "0", "0">>

\* a line break of the f-string and the indentation of the line it begins
Indent == <<"\n", " ", " ", " ", " ", " ", " ", " ", " ">>

\* the fixed texts of the f-string
EpisodeLabels ==
  [episode |-> <<"T", "a", "s", "k", " ", "E", "x", "e", "c", "u", "t", "i",
                 "o", "n", " ", "E", "p", "i", "s", "o", "d", "e", ":">>,
   task |-> <<"T", "a", "s", "k", ":", " ">>,
   status |-> <<"S", "t", "a", "t", "u", "s", ":", " ">>,
   agent |-> <<"A", "g", "e", "n", "t", ":", " ">>,
   outcome |-> <<"O", "u", "t", "c", "o", "m", "e", ":", " ">>,
   duration |-> <<"D", "u", "r", "a", "t", "i", "o", "n", ":", " ">>,
   seconds |-> <<"s">>,
   cost |-> <<"C", "o", "s", "t", ":", " ", "$">>,
   lessons |-> <<"L", "e", "s", "s", "o", "n", "s", " ", "L", "e", "a", "r",
                 "n", "e", "d", ":", " ">>]

\* the text of the episode: the f-string of store_task_execution, stripped;
\* lessons is <<>> for None, which the f-string treats like an empty text
EpisodeContent(tk, trace, outcome, lessons) ==
  Strip(Indent \o EpisodeLabels.episode
        \o Indent
        \o Indent \o EpisodeLabels.task \o tk.description
        \o Indent \o EpisodeLabels.status \o StatusText(tk.status)
        \o Indent \o EpisodeLabels.agent \o AgentTypeText(trace.agent_type)
        \o Indent \o EpisodeLabels.outcome \o outcome
        \o Indent \o EpisodeLabels.duration \o DurationText(trace.duration)
             \o EpisodeLabels.seconds
        \o Indent \o EpisodeLabels.cost \o CostText(trace.cost)
        \o Indent
        \o Indent \o (IF lessons # <<>> THEN EpisodeLabels.lessons \o lessons
                                        ELSE <<>>)
        \o Indent)

EpisodeMetadata(tk, trace) ==
  [task_id |-> tk.id, task_status |-> tk.status,
   agent_type |-> trace.agent_type, success |-> IsSuccess(tk.status)]

\* self.task_history[key] = value
Put(h, key, value) ==
  [k \in (DOMAIN h) \cup {key} |-> IF k = key THEN value ELSE h[k]]

\* EpisodicMemory.store_task_execution at time t; lessons is <<>> for None
StoreTaskExecution(m, t, tk, trace, outcome, lessons) ==
  LET metadata == EpisodeMetadata(tk, trace)
      r == EpiStore(m, t, EpisodeContent(tk, trace, outcome, lessons),
                    metadata, EpisodeImportance(metadata.success))
  IN [mem |-> [r.mem EXCEPT !.task_history =
                 Put(@, tk.id, [task |-> tk, trace |-> trace,
                                outcome |-> outcome,
                                lessons_learned |-> lessons,
                                entry_id |-> r.returned])],
      returned |-> r.returned]

\* the tasks, traces and outcomes store_task_execution is called with
EpisodeTasks ==
  [id : Tasks, description : {<<"d">>},
   status : {COMPLETED, FAILED, CRITIQUING}]

EpisodeTrace == [agent_type |-> "orchestrator", duration |-> 0, cost |-> 0]

\* <<outcome, lessons_learned>>: an outcome with no lessons and one with
Reports == {<<<<"o", "k">>, <<>>>>, <<<<"n", "o">>, <<"t", "r", "y">>>>}

InitEpi ==
  /\ mode = "single"
  /\ n = 0
  /\ task = [t \in Tasks |-> NewTask(0, 0)]
  /\ rc0 = [t \in Tasks |-> 0]
  /\ InitCommon
  /\ InitNoRuns
  /\ InitNoMemory
  /\ InitNoTiers

StoreTaskExecutionCall ==
  /\ epi.nextId <= MaxStores
  /\ \E tk \in EpisodeTasks, report \in Reports :
       LET r == StoreTaskExecution(epi, now, tk, EpisodeTrace, report[1],
                                   report[2])
       IN /\ epi' = r.mem
          /\ memCall' = [op |-> "store_task_execution", task |-> tk,
                         outcome |-> report[1], lessons |-> report[2],
                         returned |-> r.returned, before |-> epi]
  /\ UNCHANGED <<runVars, orchVars, ltVars, stm, now, sem, disk, fresh, crit>>

\* EpisodicMemory.store(content, None, importance), called directly or
\* through MemoryManager.remember(content, "episodic", None, importance):
\* an entry that is no episode, and no record in task_history
EpiStoreCall ==
  /\ epi.nextId <= MaxStores
  /\ LET r == EpiStore(epi, now, <<"c", "1">>, EmptyMetadata,
                       DefaultImportance)
     IN /\ epi' = r.mem
        /\ memCall' = [op |-> "store", returned |-> r.returned]
  /\ UNCHANGED <<runVars, orchVars, ltVars, stm, now, sem, disk, fresh, crit>>

NextEpi == StoreTaskExecutionCall \/ EpiStoreCall \/ Tick

SpecEpi == InitEpi /\ [][NextEpi]_vars

\* ------------------------------------------------ episodic memory: retrieval
\* self.entries.values(): the entries in the order they were put into the
\* dict, which is the order in which they were made and numbered
RECURSIVE InOrder(_)
InOrder(entries) ==
  IF entries = {} THEN <<>>
  ELSE LET e == CHOOSE x \in entries : \A y \in entries : x.id <= y.id
       IN <<e>> \o InOrder(entries \ {e})

\* the sort key (e.importance, e.created_at), compared as tuples
RanksHigher(e, f) ==
  \/ e.importance > f.importance
  \/ e.importance = f.importance /\ e.created_at > f.created_at

\* results.sort(key=..., reverse=True) of a list: the sort is stable, so of
\* entries none of which ranks higher than the other the one that stood
\* first in the list stands first after it
RECURSIVE SortedDescending(_)
SortedDescending(list) ==
  IF Len(list) = 0 THEN <<>>
  ELSE LET i == CHOOSE i \in 1..Len(list) :
                  /\ \A j \in 1..Len(list) : ~RanksHigher(list[j], list[i])
                  /\ \A j \in 1..(i - 1) : RanksHigher(list[i], list[j])
       IN <<list[i]>> \o SortedDescending(RemoveAt(list, i))

\* EpisodicMemory.retrieve(query, top_k) with no filters, top_k >= 0: the
\* loop collects matches in the order of the dict and ends once it has top_k
\* of them; what it collected is sorted and cut to top_k.  The ids of the
\* entries returned, in order.
EpiRetrieve(m, query, top_k) ==
  LET collected == Scan(InOrder(m.entries), 1, query, top_k, <<>>)
      matched == [k \in 1..Len(collected) |->
                    CHOOSE e \in m.entries : e.id = collected[k]]
      sorted == SortedDescending(matched)
      cut == SubSeq(sorted, 1, IF top_k < Len(sorted) THEN top_k
                                                      ELSE Len(sorted))
  IN [k \in 1..Len(cut) |-> cut[k].id]

\* EpisodicMemory.update(memory_id, **kwargs): setattr on the entry, with no
\* validation; 1 stands for True
EpiUpdate(m, id, kwargs) ==
  IF ~(\E e \in m.entries : e.id = id)
    THEN [mem |-> m, returned |-> 0]
  ELSE [mem |-> [m EXCEPT !.entries =
                   {IF e.id = id THEN SetAttrs(e, kwargs, 1) ELSE e : e \in @}],
        returned |-> 1]

\* EpisodicMemory.delete; task_history is not touched
EpiDelete(m, id) ==
  IF \E e \in m.entries : e.id = id
    THEN [mem |-> [m EXCEPT !.entries = {e \in @ : e.id # id}], returned |-> 1]
    ELSE [mem |-> m, returned |-> 0]

\* BaseMemory.clear, which the tier inherits; task_history is not touched
EpiClear(m) ==
  [mem |-> [m EXCEPT !.entries = {}], returned |-> Cardinality(m.entries)]

\* sorted(self.entries.items(), key=created_at): the sort is stable
RECURSIVE SortedByCreation(_)
SortedByCreation(list) ==
  IF Len(list) = 0 THEN <<>>
  ELSE LET i == CHOOSE i \in 1..Len(list) :
                  /\ \A j \in 1..Len(list) :
                       list[i].created_at <= list[j].created_at
                  /\ \A j \in 1..(i - 1) :
                       list[j].created_at > list[i].created_at
       IN <<list[i]>> \o SortedByCreation(RemoveAt(list, i))

\* EpisodicMemory.consolidate: all but the KeepEpisodes entries made last go;
\* task_history is not touched
EpiConsolidate(m) ==
  IF Cardinality(m.entries) > KeepEpisodes
    THEN LET ordered == SortedByCreation(InOrder(m.entries))
             extra == Len(ordered) - KeepEpisodes
         IN [mem |-> [m EXCEPT !.entries =
                        {ordered[i] : i \in (extra + 1)..Len(ordered)}],
             returned |-> extra]
    ELSE [mem |-> m, returned |-> 0]

\* the tasks whose episodes are stored, and what is looked for
FindTasks ==
  [id : Tasks, description : {<<"d">>}, status : {COMPLETED, CRITIQUING}]

\* what retrieve is asked, <<query, top_k>>: the text of the task, one
\* every episode holds, the same in capitals, and one no episode holds
EpiRetrieves ==
  {<<<<"d">>, 1>>, <<<<"d">>, 2>>, <<<<"x">>, 0>>, <<<<"x">>, 2>>,
   <<<<"T", "A", "S", "K">>, 1>>, <<<<"q">>, 2>>}

\* the keyword arguments update of an episode is called with
EpiUpdates ==
  {<<<<"importance", 1>>>>,
   <<<<"created_at", 0>>>>,
   <<<<"access_count", ConsolidateAccessCount + 1>>, <<"content", <<"x">>>>>>}

EpiFindCall(op, query, top_k, value, found) ==
  [op |-> op, query |-> query, top_k |-> top_k, returned |-> value,
   found |-> found]

InitEpiFind ==
  /\ mode = "single"
  /\ n = 0
  /\ task = [t \in Tasks |-> NewTask(0, 0)]
  /\ rc0 = [t \in Tasks |-> 0]
  /\ InitCommon
  /\ InitNoRuns
  /\ InitNoMemory
  /\ stm = NewShortTerm(DefaultMaxEntries, DefaultTtlSeconds)
  /\ now = 0
  /\ sem = NewSemantic(0)
  /\ epi = NewEpisodic
  /\ disk = NoDisk
  /\ fresh = NoFresh
  /\ crit = NewCritic(DefaultThreshold)
  /\ memCall = EpiFindCall("none", <<>>, 0, 0, <<>>)

EpiFindSame ==
  <<runVars, orchVars, ltVars, stm, now, sem, disk, fresh, crit>>

EpisodeStoreCall ==
  /\ epi.nextId <= MaxStores
  /\ \E tk \in FindTasks :
       LET r == StoreTaskExecution(epi, now, tk, EpisodeTrace, <<"o", "k">>,
                                   <<>>)
       IN /\ epi' = r.mem
          /\ memCall' = EpiFindCall("store_task_execution", <<>>, 0,
                                    r.returned, <<>>)
  /\ UNCHANGED EpiFindSame

\* EpisodicMemory.store called directly
EpiFindStoreCall ==
  /\ epi.nextId <= MaxStores
  /\ LET r == EpiStore(epi, now, <<"c", "1">>, EmptyMetadata,
                       DefaultImportance)
     IN /\ epi' = r.mem
        /\ memCall' = EpiFindCall("store", <<>>, 0, r.returned, <<>>)
  /\ UNCHANGED EpiFindSame

EpisodeRetrieveCall ==
  /\ \E ask \in EpiRetrieves :
       LET found == EpiRetrieve(epi, ask[1], ask[2])
       IN memCall' = EpiFindCall("retrieve", ask[1], ask[2], Len(found),
                                 found)
  /\ UNCHANGED <<epi, EpiFindSame>>

EpisodeUpdateCall ==
  /\ \E id \in 1..MaxStores, kwargs \in EpiUpdates :
       LET r == EpiUpdate(epi, id, kwargs)
       IN /\ epi' = r.mem
          /\ memCall' = EpiFindCall("update", <<>>, 0, r.returned, <<>>)
  /\ UNCHANGED EpiFindSame

EpisodeDeleteCall ==
  /\ \E id \in 1..(MaxStores + 1) :
       LET r == EpiDelete(epi, id)
       IN /\ epi' = r.mem
          /\ memCall' = EpiFindCall("delete", <<>>, 0, r.returned, <<>>)
  /\ UNCHANGED EpiFindSame

EpisodeConsolidateCall ==
  /\ LET r == EpiConsolidate(epi)
     IN /\ epi' = r.mem
        /\ memCall' = EpiFindCall("consolidate", <<>>, 0, r.returned, <<>>)
  /\ UNCHANGED EpiFindSame

EpisodeClearCall ==
  /\ LET r == EpiClear(epi)
     IN /\ epi' = r.mem
        /\ memCall' = EpiFindCall("clear", <<>>, 0, r.returned, <<>>)
  /\ UNCHANGED EpiFindSame

NextEpiFind ==
  \/ EpisodeStoreCall
  \/ EpiFindStoreCall
  \/ EpisodeRetrieveCall
  \/ EpisodeUpdateCall
  \/ Tick
  \/ EpisodeDeleteCall
  \/ EpisodeClearCall
  \/ EpisodeConsolidateCall

SpecEpiFind == InitEpiFind /\ [][NextEpiFind]_vars

\* ------------------------------------------------------------ memory manager
\* `importance or entry.importance`: None and 0.0 are both false, and 0
\* stands for both
EffectiveImportanceOfEntry(importance, e) == e.importance

EffectiveImportance(importance, e) ==
  IF importance # 0 THEN importance ELSE e.importance

\* MemoryManager.promote_to_long_term(memory_id, importance) up to the await
\* of the index inside long_term.store: the long-term tier it leaves and
\* what the call returns (0 for None, -1 when MemoryEntry raised); the
\* short-term tier is only read
PromoteToLongTerm(s, l, id, importance) ==
  IF Positions(s, id) = {}
    THEN [mem |-> l, returned |-> 0, suspended |-> FALSE]
  ELSE LET e == s.entries[CHOOSE i \in Positions(s, id) : TRUE]
       IN LTStoreBegin(l, e.content, e.metadata,
                       EffectiveImportance(importance, e))

\* what MemoryManager.remember is asked to keep in the short-term tier
Memos ==
  {[content |-> <<"c", "1">>, metadata |-> EmptyMetadata],
   [content |-> <<"C", "2">>, metadata |-> FactMetadata("cat", ImportanceScale)]}

MemoImportances == {DefaultMinImportance - 1, ImportanceScale - 2}

\* the importance promote_to_long_term is given, 0 for none
PromoteImportances ==
  {0, DefaultMinImportance - 1, DefaultMinImportance, ImportanceScale + 1}

\* a step of a call of the manager: its arguments, what it returns, whether
\* the coroutine was called in the step or resumed, and whether the step
\* left it suspended
MgrCall(op, step, id, imp, s, l, ret, suspended) ==
  /\ stm' = s
  /\ lt' = l
  /\ memCall' = [op |-> op, step |-> step, id |-> id, importance |-> imp,
                 returned |-> ret, suspended |-> suspended]
  /\ UNCHANGED <<runVars, orchVars, ltCall, now, sem, epi, disk, fresh, crit>>

InitMgr ==
  /\ mode = "single"
  /\ n = 0
  /\ task = [t \in Tasks |-> NewTask(0, 0)]
  /\ rc0 = [t \in Tasks |-> 0]
  /\ InitCommon
  /\ InitNoRuns
  /\ InitNoMemory
  /\ stm = NewShortTerm(DefaultMaxEntries, DefaultTtlSeconds)
  /\ now = 0
  /\ sem = NewSemantic(0)
  /\ epi = NewEpisodic
  /\ disk = NoDisk
  /\ fresh = NoFresh
  /\ crit = NewCritic(DefaultThreshold)
  /\ memCall = [op |-> "none", step |-> "call", id |-> 0, importance |-> 0,
                returned |-> 0, suspended |-> FALSE]

\* MemoryManager.remember(content, "short_term", metadata, importance), or
\* with a memory_type it does not know; with "episodic" it is the store of
\* the episodic tier, which EpiStoreCall takes
RememberCall ==
  /\ stm.nextId <= MaxStores
  /\ \E memo \in Memos, imp \in MemoImportances :
       LET r == STStore(stm, now, memo.content, memo.metadata, imp)
       IN MgrCall("remember", "call", 0, imp, r.mem, lt, r.returned, FALSE)

\* a coroutine calls promote_to_long_term and runs to the await of the
\* index, or to its end when nothing is stored; one promotion at a time
\* waits for the index in this part
PromoteCall ==
  /\ lt.nextId <= MaxStores
  /\ lt.pending = {}
  /\ \E id \in 1..(MaxStores + 1), imp \in PromoteImportances :
       LET r == PromoteToLongTerm(stm, lt, id, imp)
       IN MgrCall("promote_to_long_term", "call", id, imp, stm, r.mem,
                  r.returned, r.suspended)

\* the index answers a suspended promote_to_long_term, which returns the id
\* long_term.store returns
PromoteResume ==
  \E p \in lt.pending :
    MgrCall("promote_to_long_term", "resume", 0, 0, stm, AddEntriesEnd(lt, p),
            ReturnedBy(p), FALSE)

\* long_term.delete, which may come while a promotion waits for the index
MgrDeleteCall ==
  /\ lt.pending # {}
  /\ \E id \in HeldByCalls(lt) :
       LET r == LTDelete(lt, id)
       IN MgrCall("delete", "call", id, 0, stm, r.mem, r.returned, FALSE)

NextMgr == RememberCall \/ PromoteCall \/ PromoteResume \/ MgrDeleteCall

SpecMgr == InitMgr /\ [][NextMgr]_vars

\* --------------------------------------------------------------- persistence
\* VectorStore.save of a tier with a persist_path: nothing is written while
\* no text was ever indexed (self.vectorstore is None); else the index and
\* the pickled id mapping, whose values are the entries of the tier
VSSave(m, d) ==
  IF VectorStoreOf(m) = 0 THEN d
  ELSE [exists |-> TRUE, index |-> m.index,
        mapping |-> {e \in m.entries \cup m.detached : e.id \in m.id_to_entry}]

\* VectorStore.load into a tier whose self.entries is empty: the index and
\* the id mapping come back, the mapping naming the unpickled entries; a path
\* that does not exist leaves the store as it is
VSLoad(m, d) ==
  IF ~d.exists THEN m
  ELSE [m EXCEPT !.index = d.index, !.vectorstore = @ + 1,
                 !.id_to_entry = {e.id : e \in d.mapping},
                 !.detached = d.mapping]

\* LongTermMemory.save
LTSave(m, d) == VSSave(m, d)

\* LongTermMemory.load: self.entries is not touched
LTLoad(m, d) == VSLoad(m, d)

\* LongTermMemory(persist_path, min_importance) on a path: the vector store
\* loads what is there when it is made
FreshLongTerm(minImp, d) == VSLoad(NewLongTerm(minImp), d)

InitPersist == InitLT

SaveCall ==
  /\ disk' = LTSave(lt, disk)
  /\ ltCall' = LTCall("save", "call", 0, "", 0, FALSE)
  /\ UNCHANGED <<runVars, orchVars, lt, stm, now, sem, epi, fresh, crit, memCall>>

\* a second instance is made on the same path and its load() called
LoadFreshCall ==
  /\ fresh' = [made |-> TRUE,
               mem |-> LTLoad(FreshLongTerm(lt.min_importance, disk), disk),
               mapping |-> disk.mapping]
  /\ ltCall' = LTCall("load", "call", 0, "", 0, FALSE)
  /\ UNCHANGED <<runVars, orchVars, lt, stm, now, sem, epi, disk, crit, memCall>>

NextPersist ==
  \/ StoreCall
  \/ IndexAnswers
  \/ DeleteCall
  \/ ClearCall
  \/ SaveCall
  \/ LoadFreshCall

SpecPersist == InitPersist /\ [][NextPersist]_vars

\* ------------------------------------------- long-term memory: consolidation
\* what the calls of this part store, set and ask for
ConsImportances == {DefaultMinImportance - 1, DefaultMinImportance}

\* the keyword arguments of update: the importance, the access count raised
\* or set back to 0, both, or an attribute the entries lack
ConsUpdates ==
  {<<<<"importance", DefaultMinImportance - 1>>>>,
   <<<<"importance", DefaultMinImportance>>>>,
   <<<<"access_count", ConsolidateAccessCount>>>>,
   <<<<"access_count", 0>>>>,
   <<<<"priority", DefaultMinImportance>>>>,
   <<<<"importance", DefaultMinImportance - 1>>, <<"access_count", 0>>>>}

ConsTopKs == {1, 2}

\* LongTermMemory.retrieve up to the await inside VectorStore.search, where
\* the embedding of the query suspends it; with no store it returns [] at
\* once
LTRetrieveBegin(m, top_k) == SearchBegin(m, top_k)

\* LongTermMemory.retrieve from the await on, for the answer A of the index:
\* the entries of the search are its results, and the entry of every result
\* is counted as accessed, once for every time it is among the results.
\* found is the ids of the entries returned, in order.
LTRetrieveEnd(m, p, A) ==
  LET found == SearchResults(m, p, A)
      hits(id) == Cardinality({k \in 1..Len(found) : found[k] = id})
      counted(S) == {[e EXCEPT !.access_count = @ + hits(e.id)] : e \in S}
  IN [mem |-> Release([m EXCEPT !.entries = counted(@),
                                !.detached = counted(@)], p),
      returned |-> Len(found), found |-> found]

\* LongTermMemory.update(memory_id, **kwargs): setattr on the entry, with no
\* validation; when the content was given the text of the entry is indexed
\* once more, and the call waits for the index inside add_entries before it
\* returns True
LTUpdate(m, id, kwargs) ==
  IF ~(\E e \in m.entries : e.id = id)
    THEN [mem |-> m, returned |-> 0, suspended |-> FALSE]
  ELSE LET entry == SetAttrs(CHOOSE e \in m.entries : e.id = id, kwargs, 1)
           m1 == [m EXCEPT !.entries =
                    {IF e.id = id THEN entry ELSE e : e \in @}]
       IN IF HasKey(kwargs, "content")
            THEN [mem |-> AddEntriesBegin(m1, "update", <<id>>,
                                          <<entry.content>>),
                  returned |-> 1, suspended |-> TRUE]
            ELSE [mem |-> m1, returned |-> 1, suspended |-> FALSE]

\* LongTermMemory.consolidate: the entries it collects
ToRemove(m) ==
  {e \in m.entries : e.importance < m.min_importance
                       /\ e.access_count < ConsolidateAccessCount}

\* LongTermMemory.consolidate: delete() of every collected entry; returns
\* how many were collected
LTConsolidate(m) ==
  [mem |-> Forget(m, {e.id : e \in ToRemove(m)}),
   returned |-> Cardinality(ToRemove(m))]

\* a step of a call of this part: the operation, whether the step is the
\* call or its resumption, what it returned, whether it left the call
\* suspended at the index, and for every id the number of retrieve calls
\* that have returned the entry so far
ConsCall(op, step, value, suspended, found) ==
  [op |-> op, step |-> step, returned |-> value, suspended |-> suspended,
   retrieved |-> [id \in 1..MaxStores |->
                    IF id \in found THEN ltCall.retrieved[id] + 1
                    ELSE ltCall.retrieved[id]]]

NoConsCall ==
  [op |-> "none", step |-> "call", returned |-> 0, suspended |-> FALSE,
   retrieved |-> [id \in 1..MaxStores |-> 0]]

\* the tier as the memory manager builds it
InitCons ==
  /\ mode = "single"
  /\ n = 0
  /\ task = [t \in Tasks |-> NewTask(0, 0)]
  /\ rc0 = [t \in Tasks |-> 0]
  /\ InitCommon
  /\ InitNoRuns
  /\ lt = NewLongTerm(DefaultMinImportance)
  /\ ltCall = NoConsCall
  /\ InitNoTiers

ConsSame == <<runVars, orchVars, stm, now, sem, epi, fresh, crit, memCall>>

\* one store at a time waits for the index in this part
ConsStoreCall ==
  /\ lt.nextId <= MaxStores
  /\ lt.pending = {}
  /\ \E imp \in ConsImportances :
       LET r == LTStoreBegin(lt, "c1", EmptyMetadata, imp)
       IN /\ lt' = r.mem
          /\ ltCall' = ConsCall("store", "call", r.returned, r.suspended, {})
  /\ UNCHANGED <<disk, ConsSame>>

\* the index answers the suspended store, which returns the id of its entry
ConsIndexAnswers ==
  /\ \E p \in lt.pending :
       /\ p.op # "retrieve"
       /\ lt' = AddEntriesEnd(lt, p)
       /\ ltCall' = ConsCall(p.op, "resume", ReturnedBy(p), FALSE, {})
  /\ UNCHANGED <<disk, ConsSame>>

\* a coroutine calls retrieve and runs to the await of the search, or to its
\* end when nothing was ever indexed; one call at a time waits in this part,
\* and no entry is retrieved more often than consolidate tells apart
ConsRetrieveCall ==
  /\ lt.pending = {}
  /\ \A id \in 1..MaxStores : ltCall.retrieved[id] < ConsolidateAccessCount
  /\ \E top_k \in ConsTopKs :
       LET r == LTRetrieveBegin(lt, top_k)
       IN /\ lt' = r.mem
          /\ ltCall' = ConsCall("retrieve", "call", 0, r.suspended, {})
  /\ UNCHANGED <<disk, ConsSame>>

\* the index answers a suspended retrieve, which counts and returns
ConsRetrieveResume ==
  /\ \E p \in lt.pending :
       /\ p.op = "retrieve"
       /\ \E A \in SearchAnswers(TextsOf(lt, p.into), p.top_k) :
            LET r == LTRetrieveEnd(lt, p, A)
            IN /\ lt' = r.mem
               /\ ltCall' = ConsCall("retrieve", "resume", r.returned, FALSE,
                                     Elements(r.found))
  /\ UNCHANGED <<disk, ConsSame>>

\* update of attributes the entries have, or of one they have not
ConsUpdateCall ==
  /\ \E id \in 1..MaxStores, kwargs \in ConsUpdates :
       LET r == LTUpdate(lt, id, kwargs)
       IN /\ lt' = r.mem
          /\ ltCall' = ConsCall("update", "call", r.returned, FALSE, {})
  /\ UNCHANGED <<disk, ConsSame>>

\* consolidate and the save of the index that ends it
ConsolidateCall ==
  /\ LET r == LTConsolidate(lt)
     IN /\ lt' = r.mem
        /\ disk' = LTSave(r.mem, disk)
        /\ ltCall' = ConsCall("consolidate", "call", r.returned, FALSE, {})
  /\ UNCHANGED ConsSame

\* vector_store.add_entries([]) is called on the tier's vector store: it
\* returns the empty list and nothing waits for the index
AddEntriesCall ==
  /\ lt' = AddEntriesBegin(lt, "add_entries", <<>>, <<>>)
  /\ ltCall' = ConsCall("add_entries", "call", <<>>, FALSE, {})
  /\ UNCHANGED <<disk, ConsSame>>

NextCons ==
  \/ ConsStoreCall
  \/ AddEntriesCall
  \/ ConsIndexAnswers
  \/ ConsRetrieveCall
  \/ ConsRetrieveResume
  \/ ConsUpdateCall
  \/ ConsolidateCall

SpecCons == InitCons /\ [][NextCons]_vars

\* --------------------------------- long-term and semantic memory: retrieval
FindTopKs == {1, 2}

\* a step of a call of this part: the tier, the id of the entry it is about
\* or the top_k it was given, what it returned (a count, an id, 1 for True
\* and 0 for False), the ids of the entries a retrieve returned, whether
\* the step left the call suspended at the index, and the ids for which a
\* delete has returned True so far
FindCall(tier, op, id, top_k, value, found, suspended) ==
  [tier |-> tier, op |-> op, id |-> id, top_k |-> top_k, returned |-> value,
   found |-> found, suspended |-> suspended,
   deleted |-> IF op = "delete" /\ value = 1
                 THEN ltCall.deleted \cup {id}
                 ELSE ltCall.deleted]

NoFindCall ==
  [tier |-> "", op |-> "none", id |-> 0, top_k |-> 0, returned |-> 0,
   found |-> <<>>, suspended |-> FALSE, deleted |-> {}]

\* one tier is exercised in a behaviour: the long-term tier the memory
\* manager builds, or the semantic tier
InitFind ==
  /\ mode = "single"
  /\ n = 0
  /\ task = [t \in Tasks |-> NewTask(0, 0)]
  /\ rc0 = [t \in Tasks |-> 0]
  /\ InitCommon
  /\ InitNoRuns
  /\ lt = NewLongTerm(DefaultMinImportance)
  /\ ltCall = NoFindCall
  /\ InitNoTiers

FindSame == <<runVars, orchVars, stm, now, epi, disk, fresh, crit, memCall>>

FindLTStoreCall ==
  /\ sem.nextId = 1
  /\ lt.nextId <= MaxStores
  /\ CanSuspend(lt)
  /\ LET r == LTStoreBegin(lt, "c1", EmptyMetadata, DefaultImportance)
     IN /\ lt' = r.mem
        /\ ltCall' = FindCall("long_term", "store", r.returned, 0,
                              r.returned, <<>>, r.suspended)
  /\ UNCHANGED <<sem, FindSame>>

\* update of the content: the entry is indexed once more
FindLTUpdateCall ==
  /\ sem.nextId = 1
  /\ Len(lt.index) + Cardinality(lt.pending) <= MaxStores
  /\ CanSuspend(lt)
  /\ \E id \in 1..MaxStores :
       LET r == LTUpdate(lt, id, <<<<"content", "c2">>>>)
       IN /\ lt' = r.mem
          /\ ltCall' = FindCall("long_term", "update", id, 0, r.returned,
                                <<>>, r.suspended)
  /\ UNCHANGED <<sem, FindSame>>

\* the index answers a suspended store or update of the long-term tier
FindLTResume ==
  /\ \E p \in lt.pending :
       /\ p.op # "retrieve"
       /\ lt' = AddEntriesEnd(lt, p)
       /\ ltCall' = FindCall("long_term", p.op, p.entries[1], 0,
                             ReturnedBy(p), <<>>, FALSE)
  /\ UNCHANGED <<sem, FindSame>>

FindLTClearCall ==
  /\ sem.nextId = 1
  /\ LET r == Clear(lt)
     IN /\ lt' = r.mem
        /\ ltCall' = FindCall("long_term", "clear", 0, 0, r.returned, <<>>, FALSE)
  /\ UNCHANGED <<sem, FindSame>>

FindLTDeleteCall ==
  /\ sem.nextId = 1
  /\ \E id \in 1..(MaxStores + 1) :
       LET r == LTDelete(lt, id)
       IN /\ lt' = r.mem
          /\ ltCall' = FindCall("long_term", "delete", id, 0, r.returned, <<>>,
                                FALSE)
  /\ UNCHANGED <<sem, FindSame>>

\* a coroutine calls retrieve of the long-term tier and runs to the await of
\* the search, or to its end when nothing was ever indexed
FindLTRetrieveCall ==
  /\ sem.nextId = 1
  /\ CanSuspend(lt)
  /\ \A e \in lt.entries \cup lt.detached : e.access_count < MaxClock
  /\ \E top_k \in FindTopKs :
       LET r == LTRetrieveBegin(lt, top_k)
       IN /\ lt' = r.mem
          /\ ltCall' = FindCall("long_term", "retrieve", 0, top_k, 0, <<>>,
                                r.suspended)
  /\ UNCHANGED <<sem, FindSame>>

\* the index answers a suspended retrieve of the long-term tier
FindLTRetrieveResume ==
  /\ \E p \in lt.pending :
       /\ p.op = "retrieve"
       /\ \E A \in SearchAnswers(TextsOf(lt, p.into), p.top_k) :
            LET r == LTRetrieveEnd(lt, p, A)
            IN /\ lt' = r.mem
               /\ ltCall' = FindCall("long_term", "retrieve", 0, p.top_k,
                                     r.returned, r.found, FALSE)
  /\ UNCHANGED <<sem, FindSame>>

FindSemStoreCall ==
  /\ lt.nextId = 1
  /\ sem.nextId <= MaxStores
  /\ CanSuspend(sem)
  /\ \E c \in Contents :
       LET r == SemStoreBegin(sem, c, EmptyMetadata, DefaultImportance)
       IN /\ sem' = r.mem
          /\ ltCall' = FindCall("semantic", "store", r.returned, 0,
                                r.returned, <<>>, r.suspended)
  /\ UNCHANGED <<lt, FindSame>>

\* the index answers a suspended store of the semantic tier
FindSemResume ==
  /\ \E p \in sem.pending :
       /\ p.op # "retrieve"
       /\ sem' = AddEntriesEnd(sem, p)
       /\ ltCall' = FindCall("semantic", p.op, p.entries[1], 0,
                             ReturnedBy(p), <<>>, FALSE)
  /\ UNCHANGED <<lt, FindSame>>

FindSemDeleteCall ==
  /\ lt.nextId = 1
  /\ \E id \in 1..(MaxStores + 1) :
       LET r == SemDelete(sem, id)
       IN /\ sem' = r.mem
          /\ ltCall' = FindCall("semantic", "delete", id, 0, r.returned, <<>>,
                                FALSE)
  /\ UNCHANGED <<lt, FindSame>>

\* a coroutine calls retrieve of the semantic tier and runs to the await of
\* the search, or to its end when nothing was ever indexed
FindSemRetrieveCall ==
  /\ lt.nextId = 1
  /\ CanSuspend(sem)
  /\ \E top_k \in FindTopKs :
       LET r == SemRetrieveBegin(sem, top_k)
       IN /\ sem' = r.mem
          /\ ltCall' = FindCall("semantic", "retrieve", 0, top_k, 0, <<>>,
                                r.suspended)
  /\ UNCHANGED <<lt, FindSame>>

\* the index answers a suspended retrieve of the semantic tier
FindSemRetrieveResume ==
  /\ \E p \in sem.pending :
       /\ p.op = "retrieve"
       /\ \E A \in SearchAnswers(TextsOf(sem, p.into), p.top_k) :
            LET r == SemRetrieveEnd(sem, p, A)
            IN /\ sem' = r.mem
               /\ ltCall' = FindCall("semantic", "retrieve", 0, p.top_k,
                                     r.returned, r.found, FALSE)
  /\ UNCHANGED <<lt, FindSame>>

NextFind ==
  \/ FindLTStoreCall
  \/ FindLTUpdateCall
  \/ FindLTResume
  \/ FindLTDeleteCall
  \/ FindLTClearCall
  \/ FindLTRetrieveCall
  \/ FindLTRetrieveResume
  \/ FindSemStoreCall
  \/ FindSemResume
  \/ FindSemDeleteCall
  \/ FindSemRetrieveCall
  \/ FindSemRetrieveResume

SpecFind == InitFind /\ [][NextFind]_vars

\* ------------------------------------------------------------------- critic
\* A response is the sequence of its lines and a line the sequence of its
\* tokens: a word, a number written with digits and at most one point, a
\* blank.  A number carries its whole part and the digit after the point,
\* -1 when it has none.
W(word) == [k |-> "word", s |-> word, whole |-> 0, tenths |-> -1]

Num(whole, tenths) == [k |-> "num", s |-> "", whole |-> whole, tenths |-> tenths]

SP == [k |-> "sp", s |-> " ", whole |-> 0, tenths |-> -1]

NL == [k |-> "sp", s |-> "\n", whole |-> 0, tenths |-> -1]

\* the lines the responses of the model are made of
ResponseLines ==
  {<<W("Score:"), SP, Num(8, -1), W("/10")>>,
   <<W("score:"), Num(6, 5)>>,
   <<W("Score:"), SP, Num(15, -1), W("/10")>>,
   <<W("Score:"), SP, W("-"), Num(3, -1), W("/10")>>,
   <<W("Score:")>>,
   <<Num(7, -1)>>,
   <<W("Pass:"), SP, W("Yes")>>,
   <<W("PASS:"), SP, W("no")>>,
   <<W("Pass:"), SP, W("maybe")>>,
   <<W("Areas for Improvement:")>>,
   <<W("-"), SP, W("Point 1")>>,
   <<>>}

Responses == UNION {[1..k -> ResponseLines] : k \in 0..MaxLines}

\* CriticAgent(quality_threshold): the default, the score a response without
\* a score gets, and one above the scale
Thresholds == {DefaultScore, DefaultThreshold, MaxScore + ScoreScale}

\* re.IGNORECASE on the words the patterns name
LowerWord(word) ==
  CASE word \in {"Score:", "SCORE:"} -> "score:"
    [] word \in {"Pass:", "PASS:"} -> "pass:"
    [] word \in {"Yes", "YES"} -> "yes"
    [] word \in {"No", "NO"} -> "no"
    [] word = "Areas for Improvement:" -> "areas for improvement:"
    [] OTHER -> word

\* the response as one text: the lines with a newline between two of them
RECURSIVE Flatten(_)
Flatten(lines) ==
  IF Len(lines) = 0 THEN <<>>
  ELSE IF Len(lines) = 1 THEN lines[1]
  ELSE lines[1] \o <<NL>> \o Flatten(Tail(lines))

\* `\s*` from position i on: the first position that holds no blank
RECURSIVE SkipSpace(_, _)
SkipSpace(text, i) ==
  IF i <= Len(text) /\ text[i].k = "sp" THEN SkipSpace(text, i + 1) ELSE i

IsLabel(tok, label) == tok.k = "word" /\ LowerWord(tok.s) = label

\* float(group(1)), in tenths
ParseFloat(tok) == tok.whole * ScoreScale + (IF tok.tenths < 0 THEN 0 ELSE tok.tenths)

\* re.search(r'Score:\s*(\d+(?:\.\d+)?)'): the positions of the numbers a
\* match can end in, the leftmost being the match
ScoreMatches(text) ==
  {j \in 1..Len(text) :
     /\ text[j].k = "num"
     /\ \E i \in 1..(j - 1) :
          IsLabel(text[i], "score:") /\ SkipSpace(text, i + 1) = j}

\* the score of the response before it is clamped
ExtractScore(text) ==
  IF ScoreMatches(text) = {} THEN DefaultScore
  ELSE ParseFloat(text[SetMin(ScoreMatches(text))])

\* re.search(r'Pass:\s*(Yes|No)'): the positions of the words it can end in
PassMatches(text) ==
  {j \in 1..Len(text) :
     /\ text[j].k = "word" /\ LowerWord(text[j].s) \in {"yes", "no"}
     /\ \E i \in 1..(j - 1) :
          IsLabel(text[i], "pass:") /\ SkipSpace(text, i + 1) = j}

\* group(1).lower() of the pass match, "" when there is none
ExtractPass(text) ==
  IF PassMatches(text) = {} THEN ""
  ELSE LowerWord(text[SetMin(PassMatches(text))].s)

\* `pass_match.group(1).lower() == 'yes' if pass_match else score >= threshold`
PassedByScore(pass, score, threshold) == score >= threshold

Passed(pass, score, threshold) ==
  IF pass # "" THEN pass = "yes" ELSE score >= threshold

\* min(max(score, 0.0), 10.0)
ClampBelow(score) == IF score < 0 THEN 0 ELSE score

Clamp(score) ==
  LET low == IF score < 0 THEN 0 ELSE score
  IN IF low > MaxScore THEN MaxScore ELSE low

\* CritiqueResult(score=...): Field(ge=0.0, le=10.0)
ValidScore(score) == score >= 0 /\ score <= MaxScore

\* line.strip('- ').strip(): dashes and blanks go from both ends
RECURSIVE StripLeft(_)
StripLeft(line) ==
  IF Len(line) > 0 /\ (line[1].k = "sp" \/ line[1].s = "-")
    THEN StripLeft(Tail(line))
    ELSE line

RECURSIVE StripRight(_)
StripRight(line) ==
  IF Len(line) > 0 /\ (line[Len(line)].k = "sp" \/ line[Len(line)].s = "-")
    THEN StripRight(SubSeq(line, 1, Len(line) - 1))
    ELSE line

\* `line.strip().startswith('-')`
IsBullet(line) ==
  LET j == SkipSpace(line, 1) IN j <= Len(line) /\ line[j].s = "-"

\* r'Areas for Improvement:(.+?)(?=\n\n|\Z)' with re.DOTALL, and the lines
\* of the section that start with a dash: the section runs from the label to
\* the first end of a line that a blank line follows, or to the end of the
\* text, and takes at least one character
Improvements(lines) ==
  LET labelled == {i \in 1..Len(lines) :
                     \E t \in 1..Len(lines[i]) :
                       IsLabel(lines[i][t], "areas for improvement:")}
  IN IF labelled = {} THEN <<>>
     ELSE LET l == SetMin(labelled)
              t == SetMin({u \in 1..Len(lines[l]) :
                             IsLabel(lines[l][u], "areas for improvement:")})
              rest == SubSeq(lines[l], t + 1, Len(lines[l]))
              from == IF Len(rest) > 0 THEN l ELSE l + 1
          IN IF from > Len(lines) THEN <<>>
             ELSE LET ends == {j \in from..Len(lines) :
                                 j = Len(lines) \/ Len(lines[j + 1]) = 0}
                      section == <<rest>> \o SubSeq(lines, l + 1, SetMin(ends))
                      bullets == SelectSeq(section, IsBullet)
                  IN [i \in 1..Len(bullets) |-> StripRight(StripLeft(bullets[i]))]

\* CriticAgent._parse_critique_response(task_id, response): the result, or
\* raised when CritiqueResult rejects the score
ParseCritiqueResponse(lines, threshold) ==
  LET text == Flatten(lines)
      score == ExtractScore(text)
      passed == Passed(ExtractPass(text), score, threshold)
  IN IF ~ValidScore(Clamp(score))
       THEN [NoParse EXCEPT !.raised = TRUE]
     ELSE [score |-> Clamp(score), passed |-> passed,
           areas |-> Improvements(lines), raised |-> FALSE]

InitCritic ==
  /\ mode = "single"
  /\ n = 0
  /\ task = [t \in Tasks |-> NewTask(0, 0)]
  /\ rc0 = [t \in Tasks |-> 0]
  /\ InitCommon
  /\ InitNoRuns
  /\ InitNoMemory
  /\ stm = NewShortTerm(DefaultMaxEntries, DefaultTtlSeconds)
  /\ now = 0
  /\ sem = NewSemantic(0)
  /\ epi = NewEpisodic
  /\ disk = NoDisk
  /\ fresh = NoFresh
  /\ \E threshold \in Thresholds, lines \in Responses :
       crit = [NewCritic(threshold) EXCEPT !.response = lines]
  /\ memCall = NoMemCall

\* the model's answer is parsed
ParseCall ==
  /\ ~crit.parsed
  /\ crit' = [crit EXCEPT
                !.parsed = TRUE,
                !.result = ParseCritiqueResponse(crit.response,
                                                 crit.quality_threshold)]
  /\ UNCHANGED <<runVars, orchVars, ltVars, stm, now, sem, epi, disk, fresh, memCall>>

NextCritic == ParseCall

SpecCritic == InitCritic /\ [][NextCritic]_vars

\* -------------------------------------------------------------- AtlasSystem
\* AtlasSystem.execute_task puts the task into self.tasks and enters
\* OrchestratorAgent.execute without an await in between, so get_task finds
\* exactly the tasks whose run has started: in self.tasks, and also in the
\* orchestrator's active_tasks, completed_tasks or failed_tasks.
GetTask(t) == pc[t] # "idle"

\* the run of execute on the task has started and has not returned or raised
InFlight(t) == pc[t] \notin {"idle", "done", "failed"}

\* AtlasSystem.cancel_task(task_id), called from another coroutine while the
\* run of execute waits at an await, or before or after the run
CancelTask(t) ==
  /\ IF GetTask(t)
       THEN /\ task' = [task EXCEPT ![t].status = CANCELLED]
            /\ trans' = [trans EXCEPT ![t] = <<task[t].status, CANCELLED>>]
       ELSE UNCHANGED <<task, trans>>
  /\ sysCall' = [op |-> "cancel_task", task |-> t, returned |-> GetTask(t),
                 before |-> task[t].status, running |-> InFlight(t)]
  /\ UNCHANGED <<mode, n, rc0, pc, plan, execLog, planCount, retries, critique,
                 ctx, episodes, handled, slot, orch, results, returned, ltVars,
                 memVars, planned, tool, toolCall, rw, co, wf>>

CancelCall == \E t \in Tasks : CancelTask(t)

\* BaseAgent.reset_state: self.state is a new AgentState, not busy and with
\* no current task; active_tasks, completed_tasks, failed_tasks and
\* execution_count are attributes of the agent and stay
ResetState(o) == [o EXCEPT !.is_busy = FALSE, !.current_task = 0]

\* BaseAgent.update_state(**kwargs): the attributes the state has are set,
\* other keys are passed over
RECURSIVE UpdateState(_, _)
UpdateState(o, kwargs) ==
  IF kwargs = <<>> THEN o
  ELSE LET key == kwargs[1][1]
           value == kwargs[1][2]
           o1 == CASE key = "is_busy" -> [o EXCEPT !.is_busy = value]
                   [] key = "current_task" -> [o EXCEPT !.current_task = value]
                   [] OTHER -> o
       IN UpdateState(o1, Tail(kwargs))

\* the keyword arguments of update_state: those of the finally block of
\* execute, and a key the state lacks
StateUpdates ==
  {<<<<"is_busy", FALSE>>, <<"current_task", 0>>>>,
   <<<<"active_tasks", 0>>>>}

\* orchestrator.reset_state(), called from another coroutine while the run
\* of execute waits at an await, or before or after the run
ResetStateCall ==
  /\ orch' = ResetState(orch)
  /\ sysCall' = [op |-> "reset_state", task |-> 0, returned |-> FALSE,
                 before |-> "", running |-> FALSE]
  /\ UNCHANGED <<mode, n, rc0, task, pc, plan, execLog, planCount, retries,
                 critique, ctx, episodes, handled, trans, slot, results,
                 returned, ltVars, memVars, planned, tool, toolCall, rw, co,
                 wf>>

\* orchestrator.update_state(**kwargs), called likewise
UpdateStateCall ==
  /\ \E kwargs \in StateUpdates : orch' = UpdateState(orch, kwargs)
  /\ sysCall' = [op |-> "update_state", task |-> 0, returned |-> FALSE,
                 before |-> "", running |-> FALSE]
  /\ UNCHANGED <<mode, n, rc0, task, pc, plan, execLog, planCount, retries,
                 critique, ctx, episodes, handled, trans, slot, results,
                 returned, ltVars, memVars, planned, tool, toolCall, rw, co,
                 wf>>

NextSystem == TaskNext \/ CancelCall \/ ResetStateCall \/ UpdateStateCall

\* one task handed to AtlasSystem.execute_task, and calls of cancel_task and
\* of the orchestrator's reset_state and update_state
SpecSystem == Init /\ [][NextSystem]_vars

\* ------------------------------------------------------------------- tools
ParamKeys == {"file_path", "content"}

\* BaseTool.validate_parameters: every required parameter is given
ValidateParameters(t, parameters) == t.required \subseteq parameters

\* check_permissions of the tool
CheckPermissions(t, parameters) == t.permits

\* what _execute_impl does when it is awaited
ImplOutcomes == {"returns", "raises"}

\* BaseTool.execute that awaits _execute_impl whatever the checks answered
BaseToolExecuteUnchecked(t, parameters, impl) ==
  LET awaited == <<"validate_parameters", "check_permissions", "_execute_impl">>
  IN IF impl = "returns"
       THEN [tool |-> [t EXCEPT !.execution_count = @ + 1],
             awaited |-> awaited, success |-> TRUE, error |-> "",
             raised |-> FALSE]
       ELSE [tool |-> [t EXCEPT !.error_count = @ + 1],
             awaited |-> awaited, success |-> FALSE,
             error |-> "implementation failed", raised |-> FALSE]

\* BaseTool.execute(tool_call): the tool after the call, the methods awaited,
\* in order, and the ToolResult; every exception of the try block ends in
\* the except block, which returns
BaseToolExecute(t, parameters, impl) ==
  IF ~ValidateParameters(t, parameters)
    THEN [tool |-> [t EXCEPT !.error_count = @ + 1],
          awaited |-> <<"validate_parameters">>, success |-> FALSE,
          error |-> "Invalid parameters for tool", raised |-> FALSE]
  ELSE IF ~CheckPermissions(t, parameters)
    THEN [tool |-> [t EXCEPT !.error_count = @ + 1],
          awaited |-> <<"validate_parameters", "check_permissions">>,
          success |-> FALSE, error |-> "Insufficient permissions for tool",
          raised |-> FALSE]
  ELSE BaseToolExecuteUnchecked(t, parameters, impl)

InitTool ==
  /\ mode = "single"
  /\ n = 0
  /\ task = [t \in Tasks |-> NewTask(0, 0)]
  /\ rc0 = [t \in Tasks |-> 0]
  /\ InitCommon
  /\ planned = NoPlanned
  /\ sysCall = NoSysCall
  /\ \E required \in SUBSET ParamKeys, permits \in BOOLEAN :
       tool = NewTool(required, permits)
  /\ toolCall = NoToolCall
  /\ rw = NoRetryRun
  /\ wf = NoWorkflow
  /\ co = NoCallers
  /\ InitNoMemory
  /\ InitNoTiers

\* tool.execute(ToolCall(tool_name, parameters))
ToolExecuteCall ==
  /\ tool.execution_count + tool.error_count < MaxCalls
  /\ \E parameters \in SUBSET ParamKeys, impl \in ImplOutcomes :
       LET r == BaseToolExecute(tool, parameters, impl)
       IN /\ tool' = r.tool
          /\ toolCall' = [made |-> TRUE, parameters |-> parameters,
                          awaited |-> r.awaited, success |-> r.success,
                          error |-> r.error, raised |-> r.raised]
  /\ UNCHANGED <<orchVars, ltVars, memVars, planned, sysCall, rw, co, wf>>

NextTool == ToolExecuteCall

SpecTool == InitTool /\ [][NextTool]_vars

\* ------------------------------------------------------ execute_with_retry
\* what ExecutorAgent.execute raises: the exception classes the specification
\* tells apart
ErrorTypes ==
  {"ValidationError", "PermissionError", "TimeoutError", "ConnectionError"}

\* BaseAgent._is_recoverable_error
IsRecoverableError(e) == e \in {"TimeoutError", "ConnectionError"}

\* 2 ** attempt
RECURSIVE Pow2(_)
Pow2(k) == IF k = 0 THEN 1 ELSE 2 * Pow2(k - 1)

InitRetry ==
  /\ mode = "single"
  /\ n = 0
  /\ task = [t \in Tasks |-> NewTask(0, 0)]
  /\ rc0 = [t \in Tasks |-> 0]
  /\ InitCommon
  /\ InitNoRuns
  /\ InitNoMemory
  /\ InitNoTiers

RetrySame ==
  <<orchVars, ltVars, memVars, planned, sysCall, tool, toolCall, co, wf>>

\* execute_with_retry(task, max_retries) up to the first await: the loop
\* starts its first round, or, with no round to run, lines 254-256 run with
\* last_error still None, and `raise None` is a TypeError
RetryStart ==
  /\ rw.pc = "idle"
  /\ \E mr \in 0..(MaxRetriesBound + 1) :
       rw' = IF mr = 0
               THEN [rw EXCEPT !.pc = "raised", !.max_retries = mr,
                               !.status = FAILED,
                               !.error = "Failed after attempts: None",
                               !.raised = "TypeError"]
               ELSE [rw EXCEPT !.pc = "attempt", !.max_retries = mr,
                               !.attempt = 0, !.retry_count = 0]
  /\ UNCHANGED RetrySame

\* self.execute(task, context) returns or raises; the except block catches
\* every Exception, marks the task RETRYING and starts to sleep
AttemptEnd ==
  /\ rw.pc = "attempt"
  /\ \/ rw' = [rw EXCEPT !.pc = "returned", !.status = COMPLETED,
                         !.attempts = Append(@, "ok"), !.outcome = "result"]
     \/ \E e \in ErrorTypes :
          rw' = [rw EXCEPT !.pc = "sleeping", !.status = RETRYING,
                           !.attempts = Append(@, e), !.last_error = e,
                           !.error = e,
                           !.sleeps = Append(@, [after |-> rw.attempt,
                                                 wait_time |-> Pow2(rw.attempt)])]
  /\ UNCHANGED RetrySame

\* asyncio.sleep(wait_time) is over: the next round of the loop, or lines
\* 254-256 after the last one
SleepEnd ==
  /\ rw.pc = "sleeping"
  /\ rw' = IF rw.attempt + 1 < rw.max_retries
             THEN [rw EXCEPT !.pc = "attempt", !.attempt = @ + 1,
                             !.retry_count = rw.attempt + 1]
             ELSE [rw EXCEPT !.pc = "raised", !.status = FAILED,
                             !.error = "Failed after attempts: " \o rw.last_error,
                             !.raised = rw.last_error]
  /\ UNCHANGED RetrySame

NextRetry == RetryStart \/ AttemptEnd \/ SleepEnd

SpecRetry == InitRetry /\ [][NextRetry]_vars

\* ------------------------------------- concurrent callers of ShortTermMemory
\* Coroutines on one event loop call store and retrieve of the same tier.  A
\* coroutine gives way to the others only where an await suspends.
Callers == 1..NumCallers

\* every await gives way to the event loop
SuspendsAtEveryAwait(callee) == TRUE

\* `await self._evict_oldest()` and `await self._clean_expired()`: the bodies
\* of both have no await, so awaiting them runs them to their end without
\* giving way to the event loop
Suspends(callee) == FALSE

\* a coroutine that has not called; entry is the MemoryEntry its call of
\* store has made and not yet put into the dict, <<>> for none
IdleCaller ==
  [pc |-> "idle", op |-> "", content |-> <<>>, importance |-> 0,
   query |-> <<>>, top_k |-> 0, entry |-> <<>>]

\* MemoryEntry(...) at time t: the entries are numbered as they are made
STEntry(m, t, content, metadata, imp) ==
  [id |-> m.nextId, content |-> content, importance |-> imp,
   access_count |-> 0, metadata |-> metadata, created_at |-> t,
   last_accessed |-> t]

\* `self.entries[entry.id] = entry`
STInsert(m, e) == [m EXCEPT !.entries = Append(@, e)]

\* the call of caller `me` runs from its entry to its first suspension, or
\* to its end when nothing suspends; returned is what the call returned
CoEnter(m, t, me) ==
  IF me.op = "store"
    THEN IF ~ValidImportance(me.importance)
           THEN [mem |-> m, me |-> IdleCaller, returned |-> -1]
         ELSE IF AtCapacity(m) /\ Suspends("_evict_oldest")
           THEN [mem |-> [m EXCEPT !.nextId = @ + 1],
                 me |-> [me EXCEPT !.pc = "evicting",
                                   !.entry = <<STEntry(m, t, me.content,
                                                       EmptyMetadata,
                                                       me.importance)>>],
                 returned |-> 0]
         ELSE LET r == STStore(m, t, me.content, EmptyMetadata, me.importance)
              IN [mem |-> r.mem, me |-> IdleCaller, returned |-> r.returned]
  ELSE IF Suspends("_clean_expired")
    THEN [mem |-> m, me |-> [me EXCEPT !.pc = "cleaning"], returned |-> 0]
  ELSE LET r == STRetrieve(m, t, me.query, me.top_k)
       IN [mem |-> r.mem, me |-> IdleCaller, returned |-> r.returned]

\* the call goes on after the suspension, to its end: a store evicts and
\* puts the entry it made at its entry into the dict
CoResume(m, t, me) ==
  IF me.pc = "evicting"
    THEN [mem |-> STInsert(EvictOldest(m), me.entry[1]),
          me |-> IdleCaller, returned |-> me.entry[1].id]
    ELSE LET r == STRetrieve(m, t, me.query, me.top_k)
         IN [mem |-> r.mem, me |-> IdleCaller, returned |-> r.returned]

CoSame == <<orchVars, ltVars, sem, epi, disk, fresh, crit, planned, sysCall,
            tool, toolCall, rw, wf>>

\* no call of a coroutine has ended yet
NoCoCall == [op |-> "none", caller |-> 0, returned |-> 0]

InitCo ==
  /\ mode = "single"
  /\ n = 0
  /\ task = [t \in Tasks |-> NewTask(0, 0)]
  /\ rc0 = [t \in Tasks |-> 0]
  /\ InitCommon
  /\ planned = NoPlanned
  /\ sysCall = NoSysCall
  /\ tool = NewTool({}, TRUE)
  /\ toolCall = NoToolCall
  /\ rw = NoRetryRun
  /\ wf = NoWorkflow
  /\ co = [c \in Callers |-> IdleCaller]
  /\ InitNoMemory
  /\ \E cap \in Capacities, ttl \in Ttls : stm = NewShortTerm(cap, ttl)
  /\ now = 0
  /\ sem = NewSemantic(0)
  /\ epi = NewEpisodic
  /\ disk = NoDisk
  /\ fresh = NoFresh
  /\ crit = NewCritic(DefaultThreshold)
  /\ memCall = NoCoCall

\* a coroutine calling store is created
CoStoreCall(c) ==
  /\ co[c].pc = "idle"
  /\ stm.nextId + Cardinality({d \in Callers : co[d].op = "store"
                                                /\ co[d].pc = "called"}) \in STIds
  /\ \E content \in CoContents, imp \in CoImportances :
       co' = [co EXCEPT ![c] = [IdleCaller EXCEPT !.pc = "called",
                                  !.op = "store", !.content = content,
                                  !.importance = imp]]
  /\ UNCHANGED <<stm, now, memCall, CoSame>>

\* a coroutine calling retrieve is created
CoRetrieveCall(c) ==
  /\ co[c].pc = "idle"
  /\ \A i \in 1..Len(stm.entries) : stm.entries[i].access_count < MaxClock
  /\ \E q \in CoQueries, k \in CoTopKs :
       co' = [co EXCEPT ![c] = [IdleCaller EXCEPT !.pc = "called",
                                  !.op = "retrieve", !.query = q, !.top_k = k]]
  /\ UNCHANGED <<stm, now, memCall, CoSame>>

\* the event loop runs coroutine c up to its next suspension or its end
CoRun(c) ==
  /\ co[c].pc # "idle"
  /\ LET r == IF co[c].pc = "called" THEN CoEnter(stm, now, co[c])
              ELSE CoResume(stm, now, co[c])
     IN /\ stm' = r.mem
        /\ co' = [co EXCEPT ![c] = r.me]
        /\ memCall' = IF r.me.pc = "idle"
                         THEN [op |-> co[c].op, caller |-> c,
                               returned |-> r.returned]
                         ELSE memCall
  /\ UNCHANGED <<now, CoSame>>

CoTick ==
  /\ now < MaxClock
  /\ now' = now + 1
  /\ UNCHANGED <<stm, co, memCall, CoSame>>

NextCo ==
  \/ \E c \in Callers : CoStoreCall(c)
  \/ \E c \in Callers : CoRetrieveCall(c)
  \/ \E c \in Callers : CoRun(c)
  \/ CoTick

SpecCo == InitCo /\ [][NextCo]_vars

\* ----------------------------------------- long-term memory: concurrent stores
\* Coroutines on one event loop call LongTermMemory.store.  A call runs up
\* to the await of the index inside VectorStore.add_entries, where the
\* embedding of the text suspends it, and goes on when the index answers.
LTCoImportances ==
  {DefaultMinImportance - 1, DefaultMinImportance, ImportanceScale}

\* a caller that has not called; entry is the id of the entry its call made
NoStoreCaller == [pc |-> "idle", entry |-> 0, returned |-> 0]

LTCoSame ==
  <<orchVars, ltCall, memVars, planned, sysCall, tool, toolCall, rw, wf>>

InitLTCo ==
  /\ mode = "single"
  /\ n = 0
  /\ task = [t \in Tasks |-> NewTask(0, 0)]
  /\ rc0 = [t \in Tasks |-> 0]
  /\ InitCommon
  /\ planned = NoPlanned
  /\ sysCall = NoSysCall
  /\ tool = NewTool({}, TRUE)
  /\ toolCall = NoToolCall
  /\ rw = NoRetryRun
  /\ wf = NoWorkflow
  /\ co = [c \in Callers |-> NoStoreCaller]
  /\ \E mi \in {0, DefaultMinImportance, ImportanceScale} : lt = NewLongTerm(mi)
  /\ ltCall = NoCall
  /\ InitNoTiers

\* caller c calls store and runs to the await of the index, or to the end
\* when the gate refuses
LTCoStoreBegin(c) ==
  /\ co[c].pc = "idle"
  /\ \E content \in Contents, imp \in LTCoImportances :
       LET r == LTStoreBegin(lt, content, EmptyMetadata, imp)
       IN /\ lt' = r.mem
          /\ co' = [co EXCEPT ![c] =
                      IF r.suspended
                        THEN [pc |-> "adding", entry |-> r.returned,
                              returned |-> 0]
                        ELSE [pc |-> "ended", entry |-> 0,
                              returned |-> r.returned]]
  /\ UNCHANGED LTCoSame

\* the index answers caller c; store returns entry.id
LTCoStoreEnd(c) ==
  /\ co[c].pc = "adding"
  /\ \E p \in lt.pending :
       /\ p.entries = <<co[c].entry>>
       /\ lt' = AddEntriesEnd(lt, p)
  /\ co' = [co EXCEPT ![c].pc = "ended", ![c].returned = co[c].entry]
  /\ UNCHANGED LTCoSame

NextLTCo == \E c \in Callers : LTCoStoreBegin(c) \/ LTCoStoreEnd(c)

SpecLTCo == InitLTCo /\ [][NextLTCo]_vars

\* -------------------------------------------------------- LangGraph workflow
\* create_atlas_graph: plan -> execute -> critique -> (plan | learn) -> END.
\* A node gets the state and returns the state it leaves; a node that raises
\* ends the run of the graph.
WorkflowRaises(s, ty) == [s EXCEPT !.node = "raised", !.raised = ty]

\* LangGraphOrchestrator.execute_task: the initial state, entry point plan
InitialState(k) ==
  [NoWorkflow EXCEPT !.node = "plan", !.max_retries = k]

\* the agents read task.id first: a dict has no such attribute
HasTaskAttributes(s) == s.task_is = "Task"

\* plan_node: planner.execute(task, context); nsteps -1 when the call raised
PlanNode(s, nsteps) ==
  LET v == [s EXCEPT !.plans = @ + 1]
  IN IF ~HasTaskAttributes(s) THEN WorkflowRaises(v, "AttributeError")
     ELSE IF nsteps < 0 THEN WorkflowRaises(v, "RuntimeError")
     ELSE [v EXCEPT !.plan = nsteps, !.node = "execute"]

\* execute_node: executor.execute(task, context); state["task"] becomes the
\* dict {**task.dict(), "result": result}.  output "" when the call raised.
ExecuteNode(s, output) ==
  IF ~HasTaskAttributes(s) THEN WorkflowRaises(s, "AttributeError")
  ELSE IF output = "" THEN WorkflowRaises(s, "RuntimeError")
  ELSE [s EXCEPT !.execution_result = output, !.task_is = "dict",
                 !.node = "critique"]

\* should_retry, the conditional edge after critique
ShouldRetryEdge(s) == IF s.should_retry THEN "plan" ELSE "learn"

\* critique_node: critic.execute(task, context), then should_retry from the
\* verdict, state["retry_count"] and task.max_retries; retry_count is not
\* changed
CritiqueNode(s, passed) ==
  IF ~HasTaskAttributes(s) THEN WorkflowRaises(s, "AttributeError")
  ELSE LET v == [s EXCEPT !.critique_passed = passed,
                          !.should_retry =
                             ShouldRetry(passed, s.retry_count, s.max_retries)]
       IN [v EXCEPT !.node = ShouldRetryEdge(v)]

\* learn_node returns the state as it is; the edge leads to END
LearnNode(s) == [s EXCEPT !.learned = TRUE, !.node = "END"]

\* what the planner's and the executor's calls give
PlannedSteps == -1..MaxSteps

ExecutionOutputs == Outputs \cup {""}

InitGraph == InitLT

GraphSame == <<orchVars, ltVars, memVars, planned, sysCall, tool, toolCall, rw, co>>

\* execute_task(task) with task.max_retries = k
GraphInvoke ==
  /\ wf.node = "none"
  /\ \E k \in 0..(MaxRetriesBound + 1) : wf' = InitialState(k)
  /\ UNCHANGED GraphSame

\* the node that is due runs; the critique of this part never passes
RunNode(s, nsteps, output) ==
  CASE s.node = "plan" -> PlanNode(s, nsteps)
    [] s.node = "execute" -> ExecuteNode(s, output)
    [] s.node = "critique" -> CritiqueNode(s, FALSE)
    [] OTHER -> LearnNode(s)

\* one step of the graph.  The run is followed until the plan node has been
\* visited once more than max_retries + 1 times.
Superstep ==
  /\ wf.node \in {"plan", "execute", "critique", "learn"}
  /\ wf.plans <= wf.max_retries + 1
  /\ \E nsteps \in PlannedSteps, output \in ExecutionOutputs :
       wf' = RunNode(wf, nsteps, output)
  /\ UNCHANGED GraphSame

NextGraph == GraphInvoke \/ Superstep

SpecGraph == InitGraph /\ [][NextGraph]_vars

\* ---------------------------------------------------- one call of the planner
InitPlan ==
  /\ mode = "single"
  /\ n = 0
  /\ task = [t \in Tasks |-> NewTask(0, 0)]
  /\ rc0 = [t \in Tasks |-> 0]
  /\ InitCommon
  /\ InitNoRuns
  /\ InitNoMemory
  /\ InitNoTiers

\* PlannerAgent.execute(task, context) when the model answers `response`
PlanCall ==
  /\ ~planned.made
  /\ \E t \in Tasks, response \in ResponseTexts :
       planned' = [made |-> TRUE, task |-> t, response |-> response,
                   plan |-> CreatePlan(t, ParsePlanText(response))]
  /\ UNCHANGED <<orchVars, ltVars, memVars, sysCall, tool, toolCall, rw, co, wf>>

NextPlan == PlanCall

SpecPlan == InitPlan /\ [][NextPlan]_vars

\* A coroutine that is awaiting a model call is resumed when the call returns
\* or raises: the event loop leaves no runnable step of a run undone.
FairSpec == Spec /\ WF_vars(Next)

\* ==================================================================== claims
Done(t) == pc[t] = "done"

Raised(t) == pc[t] = "failed"

\* C1: a task handed in with retry_count = 0 and max_retries = k whose every
\* critique fails and whose phases never raise gets exactly k + 1 planning
\* phases and exactly k retries, and every run of execute comes to an end.
C1_RetryBound ==
  /\ [](\A t \in Tasks :
          (Done(t) /\ rc0[t] = 0 /\ critique[t].verdict = "fail")
            => /\ planCount[t] = task[t].max_retries + 1
               /\ retries[t] = task[t].max_retries)
  /\ <>(\A t \in 1..n : Terminal(t))

C1_Witness ==
  \E t \in Tasks :
    /\ Done(t) /\ rc0[t] = 0 /\ critique[t].verdict = "fail"
    /\ task[t].max_retries >= 2
    /\ planCount[t] = task[t].max_retries + 1

\* C2: a critique is followed by a retry exactly when it did not pass and
\* retry_count < max_retries; the retry adds exactly 1 to retry_count of the
\* same task and hands previous_attempt, feedback and improvements_needed to
\* the nested call; retry_count changes at no other point, and it never
\* exceeds max_retries for a task handed in with retry_count <= max_retries.
C2_RetryGate ==
  [][\A t \in Tasks :
       /\ (pc[t] = "critiquing" /\ pc'[t] \in {"planning", "learning"})
            => LET retry == pc'[t] = "planning"
                   c == critique'[t]
               IN /\ retry <=> (c.verdict = "fail"
                                /\ task[t].retry_count < task[t].max_retries)
                  /\ retry => /\ task'[t].retry_count = task[t].retry_count + 1
                              /\ task'[t].max_retries = task[t].max_retries
                              /\ retries'[t] = retries[t] + 1
                              /\ Last(trans'[t]) = PLANNING
                              /\ ctx'[t].given
                              /\ ctx'[t].previous_attempt = task[t].result
                              /\ ctx'[t].feedback = c.feedback
                              /\ ctx'[t].improvements_needed = c.areas
                  /\ ~retry => /\ task'[t].retry_count = task[t].retry_count
                               /\ ctx'[t] = ctx[t]
       /\ ~(pc[t] = "critiquing" /\ pc'[t] = "planning")
            => task'[t].retry_count = task[t].retry_count
       /\ rc0[t] <= task[t].max_retries
            => task'[t].retry_count <= task'[t].max_retries]_vars

C2_Witness ==
  \E t \in Tasks :
    /\ retries[t] >= 2
    /\ task[t].retry_count = task[t].max_retries
    /\ ctx[t].given /\ ctx[t].previous_attempt # NoResult
    /\ pc[t] = "learning"

\* C3: a run in which no phase raised ends COMPLETED, also when the retries
\* are used up and the critique still fails; the recorded outcome is
\* "success" exactly when the last critique passed and "partial_success"
\* otherwise; the status is FAILED only after an exception.
C3_CompletedOutcome ==
  \A t \in Tasks :
    /\ Done(t) => /\ task[t].status = COMPLETED
                  /\ slot[t].kind = "result"
                  /\ Len(episodes[t]) > 0
                  /\ \A i \in 1..Len(episodes[t]) :
                       /\ episodes[t][i].outcome = "success"
                            <=> critique[t].verdict = "pass"
                       /\ episodes[t][i].outcome = "partial_success"
                            <=> critique[t].verdict = "fail"
    /\ Terminal(t) /\ slot[t].kind # "exception" => task[t].status = COMPLETED
    /\ task[t].status = FAILED => Raised(t) /\ slot[t].kind = "exception"

C3_Witness ==
  \E t \in Tasks :
    /\ Done(t) /\ critique[t].verdict = "fail"
    /\ retries[t] >= 1 /\ task[t].retry_count = task[t].max_retries
    /\ task[t].status = COMPLETED
    /\ episodes[t][1].outcome = "partial_success"

\* C4: an exception raised by the planning, execution or critique phase
\* leaves the task FAILED with task.error the message of the exception, the
\* orchestrator's handle_error called, and the same exception handed to the
\* caller; an exception of an executor call is never swallowed.
C4_FailurePropagates ==
  \A t \in Tasks :
    /\ Raised(t) => /\ task[t].status = FAILED
                    /\ slot[t].kind = "exception"
                    /\ slot[t].exc # NoExc
                    /\ task[t].error = slot[t].exc.message
                    /\ handled[t] >= 1
                    /\ Last(trans[t]) = FAILED
    /\ (\E i \in 1..Len(execLog[t]) : execLog[t][i].state = "raised")
         => /\ Raised(t)
            /\ slot[t].phase = "execution"
            /\ slot[t].exc = Exc("RuntimeError", "executor model call failed")
    /\ slot[t].kind = "exception" => Raised(t)

C4_Witness ==
  \E t \in Tasks :
    /\ Raised(t) /\ slot[t].phase = "execution"
    /\ retries[t] >= 1
    /\ plan[t].nsteps >= 2 /\ Len(execLog[t]) = 1
    /\ task[t].error = "executor model call failed"

\* C5: a run that ended COMPLETED has written exactly one episode, however
\* many retries it took; a run that ended FAILED, and a run still under way,
\* has written none.
C5_OneEpisode ==
  \A t \in Tasks :
    /\ Done(t) => Len(episodes[t]) = 1
    /\ ~Done(t) => Len(episodes[t]) = 0

C5_Witness ==
  \E t \in Tasks : Done(t) /\ retries[t] >= 2 /\ Len(episodes[t]) = 1

\* the edges of the status machine of section 4.6
StatusEdges ==
  {<<PENDING, PLANNING>>, <<PLANNING, EXECUTING>>, <<EXECUTING, CRITIQUING>>,
   <<CRITIQUING, RETRYING>>, <<RETRYING, PLANNING>>, <<CRITIQUING, COMPLETED>>}
  \cup {<<s, FAILED>> : s \in TaskStatus}

\* C6: every change of the status of the top-level task follows an edge of
\* PENDING -> PLANNING -> EXECUTING -> CRITIQUING -> (RETRYING -> PLANNING |
\* COMPLETED) or goes to FAILED, for plans with steps and for plans without.
C6_StatusFollowsEdges ==
  \A t \in Tasks :
    \A i \in 1..(Len(trans[t]) - 1) :
      \/ trans[t][i] = trans[t][i + 1]
      \/ <<trans[t][i], trans[t][i + 1]>> \in StatusEdges

\* C7: whatever text the model returns for the plan, the planner yields a
\* Plan: no task ends FAILED because of an exception raised while the plan
\* text was turned into a Plan.
C7_PlanTextNeverFails ==
  \A t \in Tasks :
    (Raised(t) /\ slot[t].phase = "planning")
      => slot[t].exc = Exc("RuntimeError", "planner model call failed")

\* C8: with a non-empty plan the executor gets the steps one at a time in
\* list order, whatever the dependency graph says, the next one only after
\* the previous one returned; a step that raises is the last one executed and
\* fails the run; with an empty plan the executor gets the task itself, once
\* per attempt; the critique sees the results of all calls, in order.
C8_StepsInListOrder ==
  \A t \in Tasks :
    LET log == execLog[t]
        p == plan[t]
    IN /\ Len(log) <= CallsNeeded(p)
       /\ \A i \in 1..Len(log) : log[i].step = (IF p.nsteps = 0 THEN 0 ELSE i)
       /\ \A i \in 1..(Len(log) - 1) : log[i].state = "ok"
       /\ (Len(log) > 0 /\ Last(log).state = "raised")
            => Raised(t) /\ slot[t].phase = "execution"
       /\ pc[t] \in {"critiquing", "learning", "done"}
            => /\ Len(log) = CallsNeeded(p)
               /\ \A i \in 1..Len(log) : log[i].state = "ok"
               /\ task[t].result = [i \in 1..Len(log) |-> log[i].out]

C8_Witness ==
  \E t \in Tasks :
    /\ plan[t].nsteps >= 2
    /\ plan[t].graph[1] \cap (1..plan[t].nsteps) # {}
    /\ pc[t] = "critiquing"
    /\ Len(execLog[t]) = plan[t].nsteps
    /\ execLog[t][1].step = 1

\* C9: execute_multi_task returns one slot per task, in the order the tasks
\* were given, each holding the result of the task or the exception it
\* raised; when it returns every task has reached COMPLETED or FAILED,
\* whether or not another task of the batch failed, in both modes.
C9_OneSlotPerTask ==
  returned =>
    /\ Len(results) = n
    /\ \A i \in 1..n :
         /\ Terminal(i)
         /\ results[i] = slot[i]
         /\ Done(i) => /\ results[i].kind = "result"
                       /\ results[i].result = task[i].result
                       /\ task[i].status = COMPLETED
         /\ Raised(i) => /\ results[i].kind = "exception"
                         /\ results[i].exc.message = task[i].error
                         /\ task[i].status = FAILED

C9_Witness ==
  /\ returned
  /\ n >= 2
  /\ mode = "parallel"
  /\ results[1].kind = "exception"
  /\ results[2].kind = "result"

\* C10: LongTermMemory.store with an importance below min_importance returns
\* no id and leaves the entries, the index and the id mapping as they were;
\* with an importance of at least min_importance (and within the schema's
\* range) the entry is in the store from the moment the call waits for the
\* index, and once the index has answered the call returns the id of the
\* entry, the id is in the id mapping, and the text is in the index unless
\* the index the call began with has been replaced meanwhile.
C10_ImportanceGate ==
  /\ [][(ltCall'.op = "store" /\ ltCall'.step = "call") =>
          /\ ltCall'.importance < lt.min_importance
               => /\ ltCall'.returned = 0
                  /\ ~ltCall'.suspended
                  /\ lt' = lt
          /\ (ltCall'.importance >= lt.min_importance
                /\ ValidImportance(ltCall'.importance))
               => /\ ltCall'.suspended
                  /\ ltCall'.returned > 0
                  /\ \E e \in lt'.entries :
                       /\ e.id = ltCall'.returned
                       /\ e.content = ltCall'.content
                       /\ e.importance = ltCall'.importance
                       /\ e \notin lt.entries
                       /\ lt'.entries = lt.entries \cup {e}
                  /\ lt'.index = lt.index
                  /\ lt'.id_to_entry = lt.id_to_entry]_vars
  /\ [][(ltCall'.op = "store" /\ ltCall'.step = "resume") =>
          /\ ltCall'.returned > 0
          /\ lt'.entries = lt.entries
          /\ ltCall'.returned \in lt'.id_to_entry
          /\ \A p \in lt.pending \ lt'.pending :
               /\ p.entries = <<ltCall'.returned>>
               /\ p.into \in {0, VectorStoreOf(lt)}
                    => \E i \in 1..Len(lt'.index) :
                         /\ lt'.index[i].entry_id = ltCall'.returned
                         /\ lt'.index[i].content = ltCall'.content]_vars

\* the gate has refused an importance just below the threshold of a tier
\* that holds an indexed entry
C10_Witness ==
  /\ ltCall.op = "store"
  /\ ltCall.step = "call"
  /\ ltCall.returned = 0
  /\ ltCall.importance = lt.min_importance - 1
  /\ \E e \in lt.entries :
       /\ e.id \in lt.id_to_entry
       /\ \E i \in 1..Len(lt.index) : lt.index[i].entry_id = e.id

\* C11: SemanticMemory.store, store_fact and learn_fact with an importance
\* (confidence) below the min_importance the semantic tier was given return
\* no id and leave the entries, the index and the id mapping as they were.
C11_SemanticGate ==
  [][(memCall'.op \in {"store", "store_fact", "learn_fact"}
        /\ memCall'.step = "call"
        /\ memCall'.importance < sem.config.min_importance)
       => memCall'.returned = 0 /\ sem' = sem]_vars

\* a step that is a call of the short-term tier named op
STStep(op) ==
  /\ memCall'.op = op
  /\ now' = now
  /\ <<stm, memCall>>' # <<stm, memCall>>

\* C12: a ShortTermMemory with max_entries = N >= 1 never holds more than N
\* entries, whatever is called; a store into a tier that holds N entries
\* leaves N entries.
C12_CapacityBound ==
  /\ [](Len(stm.entries) <= stm.max_entries)
  /\ [][(STStep("store") /\ memCall'.returned > 0
           /\ Len(stm.entries) = stm.max_entries)
          => Len(stm'.entries) = stm.max_entries]_vars

C12_Witness ==
  /\ memCall.op = "store"
  /\ stm.max_entries = 2
  /\ memCall.returned = stm.max_entries + 1
  /\ Cardinality(memCall.removed) = 1
  /\ Len(stm.entries) = stm.max_entries

\* C13: a store into a ShortTermMemory that is at capacity removes exactly
\* one entry before it inserts, one whose last_accessed is the least among
\* the entries present; a store below capacity removes nothing.  An entry's
\* last_accessed is the time it was made, until a retrieve returns it: then
\* it is the time of that retrieve.
C13_EvictsLeastRecent ==
  /\ [][(STStep("store") /\ memCall'.returned > 0) =>
          LET old == stm.entries
              kept == SubSeq(stm'.entries, 1, Len(stm'.entries) - 1)
          IN /\ Len(old) >= stm.max_entries
                  => \E i \in 1..Len(old) :
                       /\ \A j \in 1..Len(old) :
                            old[i].last_accessed <= old[j].last_accessed
                       /\ kept = RemoveAt(old, i)
                       /\ memCall'.removed = {old[i]}
             /\ Len(old) < stm.max_entries
                  => kept = old /\ memCall'.removed = {}]_vars
  /\ [][\A i \in 1..Len(stm'.entries) :
          LET e == stm'.entries[i]
              was == {j \in 1..Len(stm.entries) : stm.entries[j].id = e.id}
          IN /\ was = {} => e.last_accessed = now /\ e.created_at = now
             /\ \A j \in was :
                  IF STStep("retrieve") /\ e.id \in Elements(memCall'.found)
                    THEN e.last_accessed = now
                    ELSE e.last_accessed = stm.entries[j].last_accessed]_vars

\* C14: the entries retrieve returns are at most ttl_seconds old, counted
\* from created_at, and when it has returned no older entry is left in the
\* store, however lately an entry was accessed.
C14_RetrieveHonoursTtl ==
  [][STStep("retrieve") =>
       /\ \A i \in 1..Len(stm'.entries) :
            now - stm'.entries[i].created_at <= stm.ttl_seconds
       /\ Elements(memCall'.found) \subseteq Ids(stm'.entries)
       /\ \A e \in memCall'.removed : now - e.created_at > stm.ttl_seconds
       /\ \A i \in 1..Len(stm.entries) :
            now - stm.entries[i].created_at > stm.ttl_seconds
              => stm.entries[i] \in memCall'.removed]_vars

C14_Witness ==
  /\ memCall.op = "retrieve"
  /\ \E e \in memCall.removed :
       /\ e.access_count > 0
       /\ now - e.last_accessed <= stm.ttl_seconds
       /\ now - e.created_at > stm.ttl_seconds
  /\ memCall.returned > 0

\* C15: every MemoryEntry held by a tier has an importance within [0, 1],
\* whatever sequence of store, update and consolidate calls came before.
C15_ImportanceInRange ==
  /\ \A i \in 1..Len(stm.entries) : ValidImportance(stm.entries[i].importance)
  /\ \A e \in lt.entries : ValidImportance(e.importance)
  /\ \A e \in sem.entries : ValidImportance(e.importance)
  /\ \A e \in epi.entries : ValidImportance(e.importance)

\* C16: store_task_execution makes one entry, with importance 0.9 and
\* success false in its metadata for a task whose status is failed, and with
\* importance 0.8 and success true for one whose status is completed; the
\* task, the trace, the outcome, the lessons and the id of the entry are in
\* task_history under the id of the task.
C16_EpisodeOfTask ==
  memCall.op = "store_task_execution" =>
    LET tk == memCall.task
        m == memCall.before
        made == {e \in epi.entries : e.id = memCall.returned}
    IN /\ memCall.returned > 0
       /\ Cardinality(made) = 1
       /\ epi.entries = m.entries \cup made
       /\ \A e \in made :
            /\ tk.status = FAILED
                 => e.importance = ImportanceScale - 1 /\ ~e.metadata.success
            /\ tk.status = COMPLETED
                 => e.importance = ImportanceScale - 2 /\ e.metadata.success
            /\ e.metadata.task_id = tk.id
       /\ tk.id \in DOMAIN epi.task_history
       /\ epi.task_history[tk.id] =
            [task |-> tk, trace |-> EpisodeTrace, outcome |-> memCall.outcome,
             lessons_learned |-> memCall.lessons, entry_id |-> memCall.returned]
       /\ \A k \in (DOMAIN m.task_history) \ {tk.id} :
            epi.task_history[k] = m.task_history[k]

C16_Witness ==
  /\ memCall.op = "store_task_execution"
  /\ memCall.task.status = COMPLETED
  /\ memCall.task.id = 2
  /\ \E e \in memCall.before.entries :
       /\ e.metadata # EmptyMetadata
       /\ e.metadata.task_status = FAILED
       /\ e.importance = ImportanceScale - 1
       /\ e.metadata.task_id = 2
  /\ \E e \in epi.entries :
       /\ e.id = memCall.returned
       /\ e.importance = ImportanceScale - 2
       /\ e.metadata.success
  /\ epi.task_history[2].entry_id = memCall.returned

\* tier l2 holds what tier l held and one more entry, a copy of the
\* short-term entry src with importance imp, under this id
PromotedCopy(l, l2, id, src, imp) ==
  \E e \in l2.entries :
    /\ e.id = id
    /\ e.content = src.content
    /\ e.metadata = src.metadata
    /\ e.importance = imp
    /\ l2.entries = l.entries \cup {e}
    /\ e \notin l.entries

\* a promote_to_long_term that waited for the index returns the id of the
\* long-term entry, which is then in the id mapping, and changes no entry
PromoteReturns ==
  (memCall'.op = "promote_to_long_term" /\ memCall'.step = "resume") =>
    /\ stm' = stm
    /\ lt'.entries = lt.entries
    /\ memCall'.returned > 0
    /\ memCall'.returned \in lt'.id_to_entry

\* C17: promote_to_long_term of an id the short-term tier holds makes a
\* long-term entry with the content and the metadata of the short-term entry
\* and leaves the short-term tier as it was; for an id it does not hold the
\* call returns none and leaves both tiers as they were.
C17_PromoteCopies ==
  [][/\ (memCall'.op = "promote_to_long_term" /\ memCall'.step = "call") =>
          LET pos == Positions(stm, memCall'.id)
          IN /\ stm' = stm
             /\ pos = {} => memCall'.returned = 0 /\ lt' = lt
             /\ \A i \in pos :
                  /\ memCall'.returned > 0
                  /\ \E imp \in 0..ImportanceScale :
                       PromotedCopy(lt, lt', memCall'.returned,
                                    stm.entries[i], imp)
     /\ PromoteReturns]_vars

\* C17, amended: the long-term entry is made when the importance in effect
\* (the one given unless it is none or 0, else the entry's own) is at least
\* the long-term tier's min_importance and at most 1; when it is lower the
\* call returns none, when it is higher the call raises, and in both cases
\* no tier changes.  The short-term tier is never changed, and an id it does
\* not hold gives none and no change.  The entry is in the long-term store
\* from the moment the call waits for the index; the call returns its id
\* when the index has answered.
C17_PromoteThroughGate ==
  [][/\ (memCall'.op = "promote_to_long_term" /\ memCall'.step = "call") =>
          LET pos == Positions(stm, memCall'.id)
          IN /\ stm' = stm
             /\ pos = {} => memCall'.returned = 0 /\ lt' = lt
             /\ \A i \in pos :
                  LET src == stm.entries[i]
                      imp == IF memCall'.importance # 0
                               THEN memCall'.importance
                               ELSE src.importance
                  IN /\ imp < lt.min_importance
                          => memCall'.returned = 0 /\ lt' = lt
                     /\ imp > ImportanceScale
                          => memCall'.returned = -1 /\ lt' = lt
                     /\ (imp >= lt.min_importance /\ imp <= ImportanceScale)
                          => /\ memCall'.returned > 0
                             /\ memCall'.suspended
                             /\ PromotedCopy(lt, lt', memCall'.returned,
                                             src, imp)
     /\ PromoteReturns]_vars

\* a promotion with the importance 0.3 of a fact remembered with a lower one
\* has returned the id of its long-term copy
C17_Witness ==
  /\ memCall.op = "promote_to_long_term"
  /\ memCall.step = "resume"
  /\ memCall.returned = 2
  /\ \E i \in 1..Len(stm.entries) :
       /\ stm.entries[i].importance < lt.min_importance
       /\ stm.entries[i].metadata.type = "fact"
       /\ \E e \in lt.entries :
            /\ e.id = memCall.returned
            /\ e.content = stm.entries[i].content
            /\ e.metadata = stm.entries[i].metadata
            /\ e.importance = DefaultMinImportance
            /\ e.id \in lt.id_to_entry

\* what get_all of a tier shows: the ids with their content and importance
Shown(m) ==
  {[id |-> e.id, content |-> e.content, importance |-> e.importance] :
     e \in m.entries}

\* C18: when a long-term tier's entries have been saved and a second
\* instance on the same path has loaded them, the second instance's own
\* store (get_by_id, get_all, update, delete) holds the same ids with the
\* same content and importance as the first.
C18_RoundTrip ==
  (ltCall.op = "load" /\ disk.exists /\ LTSave(lt, disk) = disk)
    => Shown(fresh.mem) = Shown(lt)

\* the lines of a response that name a score, and those that say Pass: Yes
\* or Pass: No
NamesScore(line) == \E t \in 1..Len(line) : IsLabel(line[t], "score:")

YesLine == <<W("Pass:"), SP, W("Yes")>>

NoLine == <<W("PASS:"), SP, W("no")>>

\* C19: whatever the response, the parser yields a CritiqueResult and its
\* score is within [0, 10]: a score above the range comes out as 10, and a
\* response that names no score gets 5.0.
C19_ScoreInRange ==
  crit.parsed =>
    /\ ~crit.result.raised
    /\ crit.result.score >= 0
    /\ crit.result.score <= MaxScore
    /\ (\A i \in 1..Len(crit.response) : ~NamesScore(crit.response[i]))
         => crit.result.score = DefaultScore
    /\ (Len(crit.response) > 0
          /\ crit.response[1] = <<W("Score:"), SP, Num(15, -1), W("/10")>>)
         => crit.result.score = MaxScore

C19_Witness ==
  /\ crit.parsed
  /\ Len(crit.response) = 2
  /\ crit.response[1] = <<W("Score:"), SP, W("-"), Num(3, -1), W("/10")>>
  /\ crit.response[2] = <<W("Score:"), SP, Num(15, -1), W("/10")>>
  /\ crit.result.score = MaxScore

\* C20: passed is what the first Pass: Yes / Pass: No of the response says,
\* whatever the score and the threshold, and a result that passed is never
\* retried; without such a line passed is score >= quality_threshold, where
\* the score is the one read from the response, which for a threshold on the
\* scale is the same as comparing the score of the result.
C20_PassedFromText ==
  crit.parsed =>
    LET lines == crit.response
        said == {i \in 1..Len(lines) : lines[i] \in {YesLine, NoLine}}
        r == crit.result
    IN /\ said # {} => (r.passed <=> lines[SetMin(said)] = YesLine)
       /\ said = {} =>
            /\ r.passed <=> ExtractScore(Flatten(lines)) >= crit.quality_threshold
            /\ crit.quality_threshold <= MaxScore
                 => (r.passed <=> r.score >= crit.quality_threshold)
       /\ r.passed =>
            \A rc \in 0..MaxRetriesBound, mr \in 0..MaxRetriesBound :
              ~ShouldRetry(r.passed, rc, mr)

C20_Witness ==
  /\ crit.parsed
  /\ crit.quality_threshold = DefaultThreshold
  /\ Len(crit.response) = 2
  /\ crit.response[1] = <<W("score:"), Num(6, 5)>>
  /\ crit.response[2] = YesLine
  /\ crit.result.passed
  /\ crit.result.score < crit.quality_threshold
  /\ ~ShouldRetry(crit.result.passed, 0, 1)

\* C21: when the planner's response holds no JSON object, or one json.loads
\* rejects, the Plan has exactly one step; its description is the whole
\* response, its priority is medium, its parent_id is the id of the original
\* task, and dependency_graph is {"step_1": []}.
C21_FallbackPlan ==
  LET match == SearchObject(planned.response)
  IN (planned.made /\ (match = <<>> \/ ~JsonAccepts(match))) =>
       /\ Len(planned.plan.steps) = 1
       /\ planned.plan.steps[1].description = planned.response
       /\ planned.plan.steps[1].priority = "medium"
       /\ planned.plan.steps[1].parent_id = planned.task
       /\ planned.plan.dependency_graph = {<<"step_1", <<>>>>}

\* a response with braces that json.loads rejects, wrapped whole in one step
C21_Witness ==
  /\ planned.made
  /\ SearchObject(planned.response) # <<>>
  /\ SearchObject(planned.response) # planned.response
  /\ ~JsonAccepts(SearchObject(planned.response))
  /\ Len(planned.plan.steps) = 1
  /\ planned.plan.steps[1].description = planned.response

\* C22: cancel_task sets CANCELLED only on a task that has not reached
\* COMPLETED or FAILED; a task that was COMPLETED or FAILED when cancel_task
\* was called still has that status after the call.
C22_CancelKeepsEnded ==
  (sysCall.op = "cancel_task" /\ sysCall.before \in {COMPLETED, FAILED}) =>
    task[sysCall.task].status = sysCall.before

\* C30: a task that cancel_task set to CANCELLED while its run was in flight
\* never has status COMPLETED afterwards: the orchestrator leaves the
\* CANCELLED status alone when it moves to a later phase or finishes.
C30_CancelledStays ==
  (sysCall.op = "cancel_task" /\ sysCall.running) =>
    task[sysCall.task].status # COMPLETED

\* C23: BaseTool.execute awaits validate_parameters, then check_permissions,
\* then the implementation, each only after the one before it answered
\* true; when the parameters are invalid or the permission is refused the
\* implementation is never awaited, and the call returns a ToolResult with
\* success false and an error message instead of raising.
C23_ChecksBeforeImpl ==
  LET awaited == toolCall.awaited
      ran(name) == \E i \in 1..Len(awaited) : awaited[i] = name
      refused == ~(tool.required \subseteq toolCall.parameters) \/ ~tool.permits
  IN toolCall.made =>
       /\ awaited[1] = "validate_parameters"
       /\ \A i \in 1..Len(awaited) :
            /\ awaited[i] = "check_permissions" =>
                 i = 2 /\ tool.required \subseteq toolCall.parameters
            /\ awaited[i] = "_execute_impl" => i = 3 /\ ~refused
       /\ refused =>
            /\ ~ran("_execute_impl")
            /\ ~toolCall.raised
            /\ ~toolCall.success
            /\ toolCall.error # ""
       /\ ~refused => ran("_execute_impl")

\* a call with valid parameters that the tool's check_permissions refused
C23_Witness ==
  /\ toolCall.made
  /\ tool.required # {}
  /\ tool.required \subseteq toolCall.parameters
  /\ ~tool.permits
  /\ toolCall.awaited = <<"validate_parameters", "check_permissions">>
  /\ ~toolCall.success

\* C24: execute_with_retry makes at most max_retries attempts and returns at
\* the first one that succeeds; it sleeps 2^attempt between two consecutive
\* attempts and nowhere else; after the last failed attempt the task is
\* FAILED and the last error is raised.
C24_BackoffBetweenAttempts ==
  LET k == Len(rw.attempts)
  IN /\ k <= rw.max_retries
     /\ \A i \in 1..(k - 1) : rw.attempts[i] # "ok"
     /\ \A i \in 1..Len(rw.sleeps) :
          /\ rw.sleeps[i].wait_time = Pow2(rw.sleeps[i].after)
          /\ rw.sleeps[i].after = i - 1
     /\ rw.pc = "attempt" => Len(rw.sleeps) = k
     /\ rw.pc \in {"returned", "raised"} /\ k > 0 => Len(rw.sleeps) = k - 1
     /\ rw.pc = "returned" => rw.attempts[k] = "ok"
     /\ rw.pc = "raised" /\ k > 0 =>
          /\ k = rw.max_retries
          /\ rw.status = FAILED
          /\ rw.raised = rw.attempts[k]

\* C25: execute_with_retry makes a further attempt only after a transient
\* error (timeout, connection failure); a validation or permission error is
\* raised to the caller after the attempt that met it.
C25_PermanentNotRetried ==
  \A i \in 1..(Len(rw.attempts) - 1) : IsRecoverableError(rw.attempts[i])

\* the step in which the call of caller c comes to its end
CoEnds(c, op) == co[c].pc # "idle" /\ co'[c].pc = "idle" /\ co[c].op = op

\* C26: with several coroutines calling store and retrieve of one
\* ShortTermMemory (max_entries >= 1) and giving way only where an await
\* suspends, the capacity check, the eviction and the insert of a store
\* happen in one step: the tier never holds more than max_entries entries;
\* the step that inserts removes one entry when the tier was at capacity in
\* that very step and none otherwise, and the inserted entry is in the tier
\* after it; an entry leaves the tier only by such an eviction or by being
\* expired when a retrieve cleans up.
C26_StoreIsAtomic ==
  /\ [](Len(stm.entries) <= stm.max_entries)
  /\ [][\A c \in Callers :
          (CoEnds(c, "store") /\ memCall'.returned > 0) =>
            LET old == stm.entries
                new == stm'.entries
                gone == Ids(old) \ Ids(new)
            IN /\ Len(new) >= 1
               /\ Last(new).id = memCall'.returned
               /\ Last(new).content = co[c].content
               /\ Cardinality(gone) = (IF Len(old) >= stm.max_entries THEN 1 ELSE 0)
               /\ \A i \in 1..Len(old) :
                    old[i].id \notin gone => old[i] \in Elements(new)]_vars
  /\ [][\A i \in 1..Len(stm.entries) :
          stm.entries[i].id \notin Ids(stm'.entries) =>
            \E c \in Callers :
              \/ CoEnds(c, "store") /\ memCall'.returned > 0
              \/ /\ CoEnds(c, "retrieve")
                 /\ Expired(stm.entries[i], now, stm.ttl_seconds)]_vars

\* a store that found the tier at capacity has ended, having evicted one
\* entry, while the call of another coroutine has been made and not yet run
C26_Witness ==
  \E c, d \in Callers :
    /\ c # d
    /\ co[c].pc = "idle"
    /\ memCall.op = "store"
    /\ memCall.caller = c
    /\ memCall.returned = stm.max_entries + 1
    /\ Len(stm.entries) = stm.max_entries
    /\ stm.max_entries = 2
    /\ co[d].pc = "called"
    /\ co[d].op = "retrieve"

\* C27: consolidate removes exactly the entries whose importance is below
\* min_importance and whose access_count is below 2, from the local store
\* and from the id mapping, leaves every other entry and the index as they
\* were, and returns the number removed; an entry that retrieve has returned
\* twice or more is never removed.
C27_ConsolidateRemoves ==
  [][ltCall'.op = "consolidate" =>
       LET gone == {e \in lt.entries :
                      e.importance < lt.min_importance /\ e.access_count < 2}
       IN /\ lt'.entries = lt.entries \ gone
          /\ lt'.id_to_entry = lt.id_to_entry \ {e.id : e \in gone}
          /\ lt'.index = lt.index
          /\ lt'.min_importance = lt.min_importance
          /\ ltCall'.returned = Cardinality(gone)
          /\ \A e \in lt.entries :
               ltCall.retrieved[e.id] >= 2 => e \in lt'.entries]_vars

\* C28: the episode recorded for a run whose final critique passed (outcome
\* "success") is stored with success = true and importance 0.8; an episode
\* with success = false and importance 0.9 belongs to a failed task.
C28_PassedEpisodeIsSuccess ==
  \A t \in Tasks :
    \A i \in 1..Len(episodes[t]) :
      LET ep == episodes[t][i]
          success == IsSuccess(ep.status)
      IN /\ ep.outcome = "success"
              => /\ success
                 /\ EpisodeImportance(success) = ImportanceScale - 2
         /\ (~success /\ EpisodeImportance(success) = ImportanceScale - 1)
              => ep.status = FAILED

\* C29: during a run only the orchestrator assigns the status of the
\* top-level task: COMPLETED is assigned to it only by the step that ends the
\* run, after the final critique and after the episode was recorded, and a
\* task that shows COMPLETED belongs to a run that has finished.
C29_CompletedOnlyAtTheEnd ==
  \A t \in Tasks :
    /\ \A i \in 2..Len(trans[t]) :
         trans[t][i] = COMPLETED
           => /\ i = Len(trans[t])
              /\ pc[t] = "done"
              /\ critique[t] # NoCritique
              /\ episodes[t] # <<>>
    /\ task[t].status = COMPLETED => pc[t] = "done"

\* C31: when a run of execute has ended, with any number of retries, the task
\* is once in completed_tasks and not in failed_tasks if it ended COMPLETED,
\* once in failed_tasks and not in completed_tasks if it ended FAILED, the
\* error handler ran at most once for it, and active_tasks no longer holds it.
C31_ListedOnce ==
  \A t \in Tasks :
    LET times(list) == Cardinality({i \in 1..Len(list) : list[i] = t})
    IN /\ pc[t] = "done"
            => /\ times(orch.completed_tasks) = 1
               /\ times(orch.failed_tasks) = 0
       /\ pc[t] = "failed"
            => /\ times(orch.failed_tasks) = 1
               /\ times(orch.completed_tasks) = 0
       /\ handled[t] <= 1
       /\ Terminal(t) => t \notin orch.active_tasks

\* C32: whenever active_tasks is not empty the orchestrator's agent state has
\* is_busy = true and a current_task, also while the tasks of a parallel
\* batch run and one of them has finished before the others.
C32_BusyWhileActive ==
  orch.active_tasks # {} => (orch.is_busy /\ orch.current_task # 0)

\* C33: every entry for which LongTermMemory.store returned an id is in the
\* local store, in the id mapping and in the similarity index, also when
\* store calls interleave at the await of the index and when the index was
\* empty as they began.
C33_StoredIsIndexed ==
  \A c \in Callers :
    (co[c].pc = "ended" /\ co[c].returned > 0)
      => /\ \E e \in lt.entries : e.id = co[c].returned
         /\ co[c].returned \in lt.id_to_entry
         /\ \E i \in 1..Len(lt.index) : lt.index[i].entry_id = co[c].returned

\* the tier a call of the retrieval part was made on, before and after
TierOf(name) == IF name = "long_term" THEN lt ELSE sem

\* C34: after delete(id) succeeded on the long-term or the semantic tier no
\* retrieve returns the entry with that id, although the similarity index
\* still holds its vector; delete of an unknown id returns false and changes
\* nothing.
C34_DeletedNotRetrieved ==
  /\ [](ltCall.op = "retrieve"
          => \A k \in 1..Len(ltCall.found) :
               ltCall.found[k] \notin ltCall.deleted)
  /\ [][ltCall'.op = "delete" =>
          LET before == TierOf(ltCall'.tier)
              after == IF ltCall'.tier = "long_term" THEN lt' ELSE sem'
              known == \E e \in before.entries : e.id = ltCall'.id
          IN /\ known => /\ ltCall'.returned = 1
                         /\ ~(\E e \in after.entries : e.id = ltCall'.id)
                         /\ ltCall'.id \notin after.id_to_entry
                         /\ after.index = before.index
             /\ ~known => /\ ltCall'.returned = 0
                          /\ after = before]_vars

\* C35: LongTermMemory.retrieve never returns the same entry twice in one
\* result and adds exactly 1 to the access_count of every entry it returns
\* (and nothing to the others), after any store, update and delete.
C35_ReturnedOnce ==
  [][(ltCall'.op = "retrieve" /\ ltCall'.tier = "long_term"
        /\ ~ltCall'.suspended) =>
       LET found == ltCall'.found
           ids == {found[k] : k \in 1..Len(found)}
       IN /\ \A j, k \in 1..Len(found) : found[j] = found[k] => j = k
          /\ \A e \in lt.entries :
               \E f \in lt'.entries :
                 /\ f.id = e.id
                 /\ f.access_count =
                      e.access_count + (IF e.id \in ids THEN 1 ELSE 0)]_vars

\* C36: EpisodicMemory.retrieve returns the top_k matching entries ordered by
\* (importance, created_at) descending: the result is sorted in that order,
\* holds top_k entries or all that match, and no matching entry left out
\* ranks higher than an entry that is returned.
C36_TopKByRank ==
  memCall.op = "retrieve" =>
    LET found == memCall.found
        matching == {e \in epi.entries : Matches(memCall.query, e.content)}
        entry(id) == CHOOSE e \in epi.entries : e.id = id
    IN /\ \A k \in 1..Len(found) : entry(found[k]) \in matching
       /\ \A j, k \in 1..Len(found) :
            j < k => ~RanksHigher(entry(found[k]), entry(found[j]))
       /\ Len(found) = IF memCall.top_k < Cardinality(matching)
                         THEN memCall.top_k ELSE Cardinality(matching)
       /\ \A e \in matching :
            e.id \notin Elements(found)
              => \A k \in 1..Len(found) : ~RanksHigher(e, entry(found[k]))

\* C37: every record of task_history refers, through its entry_id, to an
\* entry that is still in the episodic store, after any store_task_execution
\* (also of a task id stored before), delete and consolidate.
C37_HistoryRefersToEntry ==
  \A k \in DOMAIN epi.task_history :
    \E e \in epi.entries : e.id = epi.task_history[k].entry_id

\* C38: in the workflow of create_atlas_graph, with task.max_retries = k and a
\* critique that never passes, the plan node is visited at most k + 1 times
\* and a run in which the planner and the executor answered comes to its end
\* at END, through the learn node.
C38_WorkflowEnds ==
  /\ wf.plans <= wf.max_retries + 1
  /\ (wf.node \in {"END", "raised"} /\ wf.raised # "RuntimeError")
       => /\ wf.node = "END"
          /\ wf.learned

\* C39: ShortTermMemory.retrieve returns at most top_k entries for every
\* top_k >= 0, each holding the query in its content whatever the case of the
\* letters, in the order of insertion, and it changes access_count and
\* last_accessed of the entries it returns and of no others.
C39_RetrieveAtMostTopK ==
  [][(memCall'.op = "retrieve" /\ now' = now) =>
       LET found == memCall'.found
           kept == stm'.entries
           at(id) == CHOOSE i \in 1..Len(kept) : kept[i].id = id
           old(id) == CHOOSE e \in Elements(stm.entries) : e.id = id
       IN /\ Len(found) <= memCall'.top_k
          /\ \A k \in 1..Len(found) :
               /\ found[k] \in Ids(kept)
               /\ Matches(memCall'.query, kept[at(found[k])].content)
          /\ \A j, k \in 1..Len(found) : j < k => at(found[j]) < at(found[k])
          /\ \A i \in 1..Len(kept) :
               IF kept[i].id \in Elements(found)
                 THEN /\ kept[i].access_count = old(kept[i].id).access_count + 1
                      /\ kept[i].last_accessed = now
                 ELSE kept[i] = old(kept[i].id)]_vars

====
